---- MODULE Spec2Model ----
(***************************************************************************)
(* agent-trace-service: the store (projects, traces, conversation          *)
(* contents, commit links), the ingestion facade and the attribution       *)
(* engine behind POST /api/v1/blame.                                       *)
(*                                                                         *)
(* Conventions.  Identifiers compared only by equality (project_id,        *)
(* trace_id, commit_sha, url, model_id) are strings.  Values the code      *)
(* takes apart (paths, revisions, content hashes) are sequences of         *)
(* one-character strings; the empty sequence stands for None and for "".   *)
(* Line numbers and timestamps are integers (timestamps in hours).         *)
(* Confidence is in thousandths.                                           *)
(***************************************************************************)
EXTENDS Integers, Sequences, FiniteSets, TLC

VARIABLES
    projects,               \* table projects: set of project_id
    traces,                 \* table traces: set of rows
    conversation_contents,  \* table conversation_contents: set of rows
    commit_links,           \* table commit_links: set of rows
    pc,                     \* "idle" | "responded": position of the request in flight
    request,                \* the blame request being answered (NoRequest when idle)
    response,               \* its response and the engine's per-segment working values
    workers,                \* per worker: the request in flight, its connection and
                            \* its open transaction
    calc                    \* a call of a pure function: its arguments and its result

vars == <<projects, traces, conversation_contents, commit_links, pc, request, response,
          workers, calc>>

store == <<projects, traces, conversation_contents, commit_links>>

-----------------------------------------------------------------------------
(* None, absent keys *)

NoneStr == "<None>"         \* Python None where a string is expected
NoLine == -1                \* start_line / end_line missing or None
NoTier == 0                 \* tier None
NoTimestamp == -1           \* blame timestamp None or ""
BadTimestamp == -2          \* blame timestamp that datetime.fromisoformat rejects

Truthy(s) == s # NoneStr /\ s # ""

\* trace_ids given as a non-empty JSON string where a list is expected
StringIds == <<"<str>">>

IsList(trace_ids) == trace_ids # StringIds

-----------------------------------------------------------------------------
(* Sequences *)

Min2(a, b) == IF a <= b THEN a ELSE b

Abs(n) == IF n < 0 THEN 0 - n ELSE n

Take(s, n) == SubSeq(s, 1, Min2(n, Len(s)))

\* str.startswith / str.endswith
StartsWith(s, p) == Len(p) <= Len(s) /\ SubSeq(s, 1, Len(p)) = p

EndsWith(s, p) == Len(p) <= Len(s) /\ SubSeq(s, Len(s) - Len(p) + 1, Len(s)) = p

InSeq(x, s) == \E i \in 1..Len(s) : s[i] = x

RECURSIVE SeqsUpTo(_, _)
SeqsUpTo(S, n) ==
    IF n = 0 THEN {<<>>}
    ELSE LET shorter == SeqsUpTo(S, n - 1)
         IN  shorter \cup {Append(s, x) : s \in {t \in shorter : Len(t) = n - 1}, x \in S}

\* All orders in which a set can be enumerated
RECURSIVE Orders(_)
Orders(S) ==
    IF S = {} THEN {<<>>}
    ELSE UNION {{<<x>> \o o : o \in Orders(S \ {x})} : x \in S}

-----------------------------------------------------------------------------
(* Signal weights (attribution.py) *)

WEIGHT_COMMIT_LINK == 40
WEIGHT_CONTENT_HASH == 30
WEIGHT_REVISION_PARENT == 15
WEIGHT_REVISION_ANCESTOR == 8
WEIGHT_RANGE_MATCH == 10
WEIGHT_RANGE_OVERLAP == 5
WEIGHT_TIMESTAMP == 5

OVERLAP_MARGIN == 5
MIN_SHA_PREFIX == 7
WINDOW_CANDIDATE_CAP == 5
WINDOW_HOURS_BEFORE == 24
WINDOW_HOURS_AFTER == 1
WINDOW_ROW_LIMIT == 200
MAX_CONVERSATION_SUMMARY_LEN == 200

STRUCTURAL ==
    {"commit_link", "content_hash", "revision_parent",
     "revision_ancestor", "range_match", "range_overlap"}

-----------------------------------------------------------------------------
(* Hashes and revisions *)

Sha256Prefix == <<"s", "h", "a", "2", "5", "6", ":">>

\* str.removeprefix("sha256:")
RemovePrefix(h) ==
    IF StartsWith(h, Sha256Prefix) THEN SubSeq(h, Len(Sha256Prefix) + 1, Len(h)) ELSE h

LowerChar(c) ==
    CASE c = "A" -> "a" [] c = "B" -> "b" [] c = "C" -> "c"
      [] c = "D" -> "d" [] c = "E" -> "e" [] c = "F" -> "f"
      [] c = "S" -> "s" [] c = "H" -> "h" [] OTHER -> c

\* str.lower()
Lower(h) == [i \in 1..Len(h) |-> LowerChar(h[i])]

HashesMatchExact(hash_a, hash_b) ==
    Lower(RemovePrefix(hash_a)) # <<>> /\ Lower(RemovePrefix(hash_a)) = Lower(RemovePrefix(hash_b))

HashesMatch(hash_a, hash_b) ==
    LET a == Lower(RemovePrefix(hash_a))
        b == Lower(RemovePrefix(hash_b))
        min_len == Min2(Len(a), Len(b))
    IN  IF min_len = 0 THEN FALSE
        ELSE SubSeq(a, 1, min_len) = SubSeq(b, 1, min_len)

IsPrefixMatch(sha_a, sha_b) ==
    LET min_len == Min2(Len(sha_a), Len(sha_b))
    IN  IF min_len < MIN_SHA_PREFIX THEN FALSE
        ELSE SubSeq(sha_a, 1, min_len) = SubSeq(sha_b, 1, min_len)

-----------------------------------------------------------------------------
(* Trace documents.  A file entry is                                        *)
(*   [path, start_line, end_line, content_hash, conversations, changes];   *)
(* a conversation [url, contributor_type, model_id, start_line, end_line,  *)
(* content_hash, ranges]; a range or change [start_line, end_line,         *)
(* content_hash].                                                          *)

Range(s, e, h) == [start_line |-> s, end_line |-> e, content_hash |-> h]

Conv(url, ctype, model, s, e, h, ranges) ==
    [url |-> url, contributor_type |-> ctype, model_id |-> model,
     start_line |-> s, end_line |-> e, content_hash |-> h, ranges |-> ranges]

FileEntry(path, s, e, h, convs, changes) ==
    [path |-> path, start_line |-> s, end_line |-> e, content_hash |-> h,
     conversations |-> convs, changes |-> changes]

HasRange(entry) == entry.start_line # NoLine /\ entry.end_line # NoLine

\* trace_path == file_path, or one ends with the other
PathMatches(trace_path, file_path) ==
    \/ trace_path = file_path
    \/ EndsWith(trace_path, file_path)
    \/ EndsWith(file_path, trace_path)

\* Index of the first file entry matching file_path, 0 for None
FindMatchingFile(files_data, file_path) ==
    LET hits == {i \in 1..Len(files_data) : PathMatches(files_data[i].path, file_path)}
    IN  IF hits = {} THEN 0 ELSE CHOOSE i \in hits : \A j \in hits : i <= j

OwnRange(entry) == IF HasRange(entry) THEN <<(<<entry.start_line, entry.end_line>>)>> ELSE <<>>

RECURSIVE RangesOf(_)
RangesOf(entries) ==
    IF entries = <<>> THEN <<>>
    ELSE OwnRange(Head(entries)) \o RangesOf(Tail(entries))

RECURSIVE ConvRanges(_)
ConvRanges(convs) ==
    IF convs = <<>> THEN <<>>
    ELSE OwnRange(Head(convs)) \o RangesOf(Head(convs).ranges) \o ConvRanges(Tail(convs))

CollectRanges(file_entry) ==
    OwnRange(file_entry) \o ConvRanges(file_entry.conversations) \o RangesOf(file_entry.changes)

RECURSIVE CheckRangeLoop(_, _)
CheckRangeLoop(ranges, line_number) ==
    IF ranges = <<>> THEN "none"
    ELSE LET start == Head(ranges)[1]
             end == Head(ranges)[2]
         IN  IF start <= line_number /\ line_number <= end THEN "exact"
             ELSE IF (start - OVERLAP_MARGIN) <= line_number
                     /\ line_number <= (end + OVERLAP_MARGIN) THEN "overlap"
             ELSE CheckRangeLoop(Tail(ranges), line_number)

CheckRange(file_entry, line_number) ==
    CheckRangeLoop(CollectRanges(file_entry), line_number)

\* best is <<>> for None; inf stands for float("inf")
RECURSIVE BestRangeLoop(_, _, _, _, _)
BestRangeLoop(ranges, line_number, best, inf, best_distance) ==
    IF ranges = <<>> THEN best
    ELSE LET start == Head(ranges)[1]
             end == Head(ranges)[2]
             rest == Tail(ranges)
             dist == Min2(Abs(line_number - start), Abs(line_number - end))
         IN  IF start <= line_number /\ line_number <= end
             THEN IF best = <<>> \/ (end - start) < (best[2] - best[1])
                  THEN BestRangeLoop(rest, line_number, <<start, end>>, FALSE, 0)
                  ELSE BestRangeLoop(rest, line_number, best, inf, best_distance)
             ELSE IF inf \/ dist < best_distance
                  THEN BestRangeLoop(rest, line_number, <<start, end>>, FALSE, dist)
                  ELSE BestRangeLoop(rest, line_number, best, inf, best_distance)

GetBestRange(file_entry, line_number) ==
    BestRangeLoop(CollectRanges(file_entry), line_number, <<>>, TRUE, 0)

\* A missing start_line/end_line raises KeyError/TypeError: assume it covers the line
RangeContains(entry, line_number) ==
    IF HasRange(entry)
    THEN entry.start_line <= line_number /\ line_number <= entry.end_line
    ELSE TRUE

\* First entry of a list carrying a hash whose range contains the line, <<>> if none
RECURSIVE FirstCoveringHash(_, _)
FirstCoveringHash(entries, line_number) ==
    IF entries = <<>> THEN <<>>
    ELSE IF Head(entries).content_hash # <<>> /\ RangeContains(Head(entries), line_number)
         THEN Head(entries).content_hash
         ELSE FirstCoveringHash(Tail(entries), line_number)

RECURSIVE AllConvRanges(_)
AllConvRanges(convs) ==
    IF convs = <<>> THEN <<>> ELSE Head(convs).ranges \o AllConvRanges(Tail(convs))

ExtractContentHash(file_entry, line_number) ==
    LET in_ranges == FirstCoveringHash(AllConvRanges(file_entry.conversations), line_number)
        in_convs == FirstCoveringHash(file_entry.conversations, line_number)
        in_changes == FirstCoveringHash(file_entry.changes, line_number)
    IN  IF in_ranges # <<>> THEN in_ranges
        ELSE IF in_convs # <<>> THEN in_convs
        ELSE IF in_changes # <<>> THEN in_changes
        ELSE file_entry.content_hash

-----------------------------------------------------------------------------
(* Persistence (database_service.py).  Rows:                                *)
(*   traces        [project_id, user_id, trace_id, trace_timestamp,        *)
(*                  revision, tool, files]                                 *)
(*   commit_links  [project_id, user_id, commit_sha, parent_sha,           *)
(*                  trace_ids, files_changed, committed_at, ledger]        *)
(*   conversation_contents [project_id, user_id, url, content]             *)
(* The files column and trace_record["files"] hold the same list (the      *)
(* column is NULL exactly when the list is empty), so a row keeps one      *)
(* files field.                                                            *)

\* INSERT INTO projects ... ON CONFLICT (project_id) DO NOTHING
EnsureProject(projs, project_id) == projs \cup {project_id}

TraceRow(project_id, user_id, trace) ==
    [project_id |-> project_id, user_id |-> user_id, trace_id |-> trace.id,
     trace_timestamp |-> trace.timestamp, revision |-> trace.revision,
     tool |-> trace.tool, files |-> trace.files]

InsertTraceOverwriting(rows, project_id, user_id, trace) ==
    {r \in rows : ~(r.project_id = project_id /\ r.trace_id = trace.id)}
    \cup {TraceRow(project_id, user_id, trace)}

\* INSERT INTO traces ... ON CONFLICT (project_id, trace_id) DO NOTHING
InsertTrace(rows, project_id, user_id, trace) ==
    IF \E r \in rows : r.project_id = project_id /\ r.trace_id = trace.id
    THEN rows
    ELSE rows \cup {TraceRow(project_id, user_id, trace)}

\* INSERT INTO conversation_contents ... ON CONFLICT (project_id, url) DO UPDATE
RECURSIVE UpsertConversationContents(_, _, _, _)
UpsertConversationContents(rows, project_id, user_id, contents) ==
    IF contents = <<>> THEN rows
    ELSE LET item == Head(contents)
             old == {r \in rows : r.project_id = project_id /\ r.url = item.url}
             new == IF old = {}
                    THEN {[project_id |-> project_id, user_id |-> user_id,
                           url |-> item.url, content |-> item.content]}
                    ELSE {[r EXCEPT !.content = item.content] : r \in old}
         IN  UpsertConversationContents((rows \ old) \cup new, project_id, user_id,
                                        Tail(contents))

\* json.dumps(ledger) if ledger else None: an empty ledger is stored as NULL
StoredLedger(ledger) == IF Truthy(ledger) THEN ledger ELSE NoneStr

InsertCommitLinkKeepingLedger(rows, project_id, user_id, data) ==
    LET old == {r \in rows : r.project_id = project_id /\ r.commit_sha = data.commit_sha}
        row == [project_id |-> project_id, user_id |-> user_id,
                commit_sha |-> data.commit_sha, parent_sha |-> data.parent_sha,
                trace_ids |-> data.trace_ids, files_changed |-> data.files_changed,
                committed_at |-> data.committed_at,
                ledger |-> IF Truthy(data.ledger) \/ old = {} THEN StoredLedger(data.ledger)
                           ELSE (CHOOSE r \in old : TRUE).ledger]
    IN  (rows \ old) \cup {row}

\* INSERT INTO commit_links ... ON CONFLICT (project_id, commit_sha) DO UPDATE
InsertCommitLink(rows, project_id, user_id, data) ==
    LET old == {r \in rows : r.project_id = project_id /\ r.commit_sha = data.commit_sha}
        row == [project_id |-> project_id, user_id |-> user_id,
                commit_sha |-> data.commit_sha, parent_sha |-> data.parent_sha,
                trace_ids |-> data.trace_ids, files_changed |-> data.files_changed,
                committed_at |-> data.committed_at, ledger |-> StoredLedger(data.ledger)]
    IN  (rows \ old) \cup {row}

\* SELECT ... FROM commit_links WHERE project_id = %s AND commit_sha = %s LIMIT 1
\* (the set of matching rows: empty for None)
GetCommitLink(project_id, commit_sha) ==
    {r \in commit_links : r.project_id = project_id /\ r.commit_sha = commit_sha}

\* SELECT ledger ... AND ledger IS NOT NULL LIMIT 1 (NoneStr for None)
GetLedger(project_id, commit_sha) ==
    LET rows == {r \in GetCommitLink(project_id, commit_sha) : r.ledger # NoneStr}
    IN  IF rows = {} THEN NoneStr ELSE (CHOOSE r \in rows : TRUE).ledger

\* SELECT content ... WHERE project_id = %s AND url = %s LIMIT 1 (<<>> for None)
GetConversationContent(project_id, url) ==
    LET rows == {r \in conversation_contents : r.project_id = project_id /\ r.url = url}
    IN  IF rows = {} THEN <<>> ELSE (CHOOSE r \in rows : TRUE).content

\* The rows of a set in the order the scan returns them: ord lists trace ids in
\* the order the database happens to produce rows when no ORDER BY decides.
RECURSIVE RowsInOrder(_, _)
RowsInOrder(rows, ord) ==
    IF ord = <<>> THEN <<>>
    ELSE LET here == {r \in rows : r.trace_id = Head(ord)}
         IN  (IF here = {} THEN <<>> ELSE <<CHOOSE r \in here : TRUE>>)
             \o RowsInOrder(rows, Tail(ord))

\* Stable insertion of a row into a sequence sorted by trace_timestamp DESC
RECURSIVE InsertByTimestampDesc(_, _)
InsertByTimestampDesc(sorted, row) ==
    IF sorted = <<>> THEN <<row>>
    ELSE IF Head(sorted).trace_timestamp >= row.trace_timestamp
         THEN <<Head(sorted)>> \o InsertByTimestampDesc(Tail(sorted), row)
         ELSE <<row>> \o sorted

\* ORDER BY trace_timestamp DESC (equal timestamps stay in scan order)
RECURSIVE OrderByTimestampDesc(_)
OrderByTimestampDesc(rows) ==
    IF rows = <<>> THEN <<>>
    ELSE InsertByTimestampDesc(OrderByTimestampDesc(SubSeq(rows, 1, Len(rows) - 1)),
                               rows[Len(rows)])

\* WHERE project_id = %s AND trace_id = ANY(%s)   (no ORDER BY)
FindTracesByIds(project_id, trace_ids, ord) ==
    IF trace_ids = <<>> THEN <<>>
    ELSE RowsInOrder({r \in traces : r.project_id = project_id /\ InSeq(r.trace_id, trace_ids)},
                     ord)

\* WHERE project_id = %s AND vcs->>'revision' = %s ORDER BY trace_timestamp DESC
FindTracesByRevision(project_id, revision, ord) ==
    OrderByTimestampDesc(
        RowsInOrder({r \in traces : r.project_id = project_id /\ r.revision = revision}, ord))

\* WHERE project_id = %s AND trace_timestamp >= %s AND trace_timestamp <= %s
\* ORDER BY trace_timestamp DESC LIMIT 200
FindTracesInTimeWindow(project_id, since, until, ord) ==
    Take(OrderByTimestampDesc(
             RowsInOrder({r \in traces : /\ r.project_id = project_id
                                         /\ r.trace_timestamp >= since
                                         /\ r.trace_timestamp <= until}, ord)),
         WINDOW_ROW_LIMIT)

-----------------------------------------------------------------------------
(* Tier mapping (attribution.py) *)

HasStructural(signals) == \E i \in 1..Len(signals) : signals[i] \in STRUCTURAL

\* Mutant: tier 2 from 60 points on
ComputeTierGenerous(score, signals) ==
    IF score <= 0 THEN NoTier
    ELSE IF ~HasStructural(signals) THEN NoTier
    ELSE IF score >= 95 /\ InSeq("commit_link", signals) /\ InSeq("content_hash", signals)
         THEN 1
    ELSE IF score >= 60 THEN 2
    ELSE IF score >= 45 THEN 4
    ELSE IF score >= 25 THEN 5
    ELSE 6

ComputeTier(score, signals) ==
    IF score <= 0 THEN NoTier
    ELSE IF ~HasStructural(signals) THEN NoTier
    ELSE IF score >= 95 /\ InSeq("commit_link", signals) /\ InSeq("content_hash", signals)
         THEN 1
    ELSE IF score >= 80 THEN 2
    ELSE IF score >= 60 THEN 3
    ELSE IF score >= 45 THEN 4
    ELSE IF score >= 25 THEN 5
    ELSE 6

\* Mutant: the table shifted by one row (tier 1 reads tier 2's confidence)
TierToConfidenceShifted(tier) ==
    CASE tier = 1 -> 999
      [] tier = 2 -> 950
      [] tier = 3 -> 850
      [] tier = 4 -> 700
      [] tier = 5 -> 400
      [] OTHER -> 0

\* Confidence in thousandths
TierToConfidence(tier) ==
    CASE tier = 1 -> 1000
      [] tier = 2 -> 999
      [] tier = 3 -> 950
      [] tier = 4 -> 850
      [] tier = 5 -> 700
      [] tier = 6 -> 400
      [] OTHER -> 0

-----------------------------------------------------------------------------
(* Candidate selection *)

TraceTouchesFile(trace, file_path) == FindMatchingFile(trace.files, file_path) # 0

\* _add: append the rows not seen yet, keyed by trace_id
RECURSIVE AddCandidates(_, _)
AddCandidates(candidates, rows) ==
    IF rows = <<>> THEN candidates
    ELSE LET t == Head(rows)
             seen == {candidates[i].trace_id : i \in 1..Len(candidates)}
         IN  AddCandidates(IF Truthy(t.trace_id) /\ t.trace_id \notin seen
                           THEN Append(candidates, t) ELSE candidates,
                           Tail(rows))

RECURSIVE FilterTouching(_, _)
FilterTouching(candidates, file_path) ==
    IF candidates = <<>> THEN <<>>
    ELSE (IF TraceTouchesFile(Head(candidates), file_path) THEN <<Head(candidates)>> ELSE <<>>)
         \o FilterTouching(Tail(candidates), file_path)

\* The union of the three strategies before the file filter
GatherCandidates(project_id, blame_parent, blame_timestamp, linked_trace_ids, ord) ==
    LET path_a == IF linked_trace_ids # <<>>
                  THEN AddCandidates(<<>>, FindTracesByIds(project_id, linked_trace_ids, ord))
                  ELSE <<>>
        path_b == IF blame_parent # <<>>
                  THEN AddCandidates(path_a, FindTracesByRevision(project_id, blame_parent, ord))
                  ELSE path_a
    IN  IF blame_timestamp # NoTimestamp /\ Len(path_b) < WINDOW_CANDIDATE_CAP
           /\ blame_timestamp # BadTimestamp
        THEN AddCandidates(path_b,
                 FindTracesInTimeWindow(project_id, blame_timestamp - WINDOW_HOURS_BEFORE,
                                        blame_timestamp + WINDOW_HOURS_AFTER, ord))
        ELSE path_b

\* Mutant: the file filter left out
FindCandidateTracesUnfiltered(project_id, file_path, blame_commit, blame_parent, blame_timestamp, linked_trace_ids, ord) ==
    GatherCandidates(project_id, blame_parent, blame_timestamp, linked_trace_ids, ord)

FindCandidateTraces(project_id, file_path, blame_commit, blame_parent, blame_timestamp, linked_trace_ids, ord) ==
    FilterTouching(GatherCandidates(project_id, blame_parent, blame_timestamp,
                                    linked_trace_ids, ord),
                   file_path)

-----------------------------------------------------------------------------
(* Scoring *)

\* The stored trace_timestamp is a datetime: plausible whenever present
TimestampPlausible(trace_ts, blame_commit, blame_parent) == trace_ts # NoTimestamp

\* Mutant: only the full parent SHA counts, abbreviations do not
RevisionSignalExactOnly(trace, blame_parent) ==
    IF trace.revision # <<>> /\ blame_parent # <<>> /\ trace.revision = blame_parent
    THEN <<"revision_parent">> ELSE <<>>

RevisionSignal(trace, blame_parent) ==
    IF trace.revision # <<>> /\ blame_parent # <<>>
       /\ (trace.revision = blame_parent \/ IsPrefixMatch(trace.revision, blame_parent))
    THEN <<"revision_parent">> ELSE <<>>

RangeSignal(matched_file, line_number) ==
    LET range_result == CheckRange(matched_file, line_number)
    IN  IF range_result = "exact" THEN <<"range_match">>
        ELSE IF range_result = "overlap" THEN <<"range_overlap">>
        ELSE <<>>

HashSignal(matched_file, line_number, content_hash) ==
    IF content_hash # <<>>
    THEN LET file_hash == ExtractContentHash(matched_file, line_number)
         IN  IF file_hash # <<>> /\ HashesMatch(content_hash, file_hash)
             THEN <<"content_hash">> ELSE <<>>
    ELSE <<>>

TimestampSignal(trace, blame_commit, blame_parent) ==
    IF trace.trace_timestamp # NoTimestamp /\ blame_parent # <<>>
       /\ TimestampPlausible(trace.trace_timestamp, blame_commit, blame_parent)
    THEN <<"timestamp_match">> ELSE <<>>

Weight(signal) ==
    CASE signal = "commit_link" -> WEIGHT_COMMIT_LINK
      [] signal = "content_hash" -> WEIGHT_CONTENT_HASH
      [] signal = "revision_parent" -> WEIGHT_REVISION_PARENT
      [] signal = "revision_ancestor" -> WEIGHT_REVISION_ANCESTOR
      [] signal = "range_match" -> WEIGHT_RANGE_MATCH
      [] signal = "range_overlap" -> WEIGHT_RANGE_OVERLAP
      [] signal = "timestamp_match" -> WEIGHT_TIMESTAMP

RECURSIVE SumWeights(_)
SumWeights(signals) ==
    IF signals = <<>> THEN 0 ELSE Weight(Head(signals)) + SumWeights(Tail(signals))

\* (score, signals): each signal adds its weight as it is appended
ScoreTrace(trace, file_path, line_number, content_hash, blame_commit, blame_parent, has_commit_link, linked_trace_ids) ==
    LET link == IF has_commit_link /\ InSeq(trace.trace_id, linked_trace_ids)
                THEN <<"commit_link">> ELSE <<>>
        m == FindMatchingFile(trace.files, file_path)
        in_file == IF m # 0
                   THEN RangeSignal(trace.files[m], line_number)
                        \o HashSignal(trace.files[m], line_number, content_hash)
                   ELSE <<>>
        signals == link \o RevisionSignal(trace, blame_parent) \o in_file
                   \o TimestampSignal(trace, blame_commit, blame_parent)
    IN  [score |-> SumWeights(signals), signals |-> signals]

-----------------------------------------------------------------------------
(* Result builder *)

NoAttribution ==
    [tier |-> NoTier, confidence |-> 0, trace_id |-> NoneStr,
     conversation_url |-> NoneStr, conversation_content |-> <<>>,
     contributor_type |-> NoneStr, model_id |-> NoneStr, tool |-> NoneStr,
     matched_range |-> <<>>, content_hash_match |-> FALSE,
     commit_link_match |-> FALSE, signals |-> <<>>]

\* The metadata walked so far: [model_id, url, ctype]
\* Conversations of the matched file entry; stops once model_id and url are both set
RECURSIVE MetaFromMatched(_, _)
MetaFromMatched(convs, acc) ==
    IF convs = <<>> THEN acc
    ELSE LET conv == Head(convs)
             next == [ctype |-> IF Truthy(conv.contributor_type) /\ ~Truthy(acc.ctype)
                                THEN conv.contributor_type ELSE acc.ctype,
                      model_id |-> IF Truthy(conv.model_id) /\ ~Truthy(acc.model_id)
                                   THEN conv.model_id ELSE acc.model_id,
                      url |-> IF Truthy(conv.url) /\ ~Truthy(acc.url)
                              THEN conv.url ELSE acc.url]
         IN  IF Truthy(next.model_id) /\ Truthy(next.url) THEN next
             ELSE MetaFromMatched(Tail(convs), next)

\* Conversations of another file entry of the winning trace (no early exit)
RECURSIVE MetaFromOther(_, _)
MetaFromOther(convs, acc) ==
    IF convs = <<>> THEN acc
    ELSE LET conv == Head(convs)
             next == [model_id |-> IF Truthy(conv.model_id) /\ ~Truthy(acc.model_id)
                                   THEN conv.model_id ELSE acc.model_id,
                      ctype |-> IF Truthy(conv.contributor_type) /\ acc.ctype = "unknown"
                                THEN conv.contributor_type ELSE acc.ctype,
                      url |-> IF Truthy(conv.url) /\ ~Truthy(acc.url)
                              THEN conv.url ELSE acc.url]
         IN  MetaFromOther(Tail(convs), next)

\* The fallback over all file entries but the matched one (index m)
RECURSIVE MetaFromFiles(_, _, _, _)
MetaFromFiles(files_data, i, m, acc) ==
    IF i > Len(files_data) THEN acc
    ELSE IF i = m THEN MetaFromFiles(files_data, i + 1, m, acc)
    ELSE LET next == MetaFromOther(files_data[i].conversations, acc)
         IN  IF Truthy(next.model_id) /\ Truthy(next.url) THEN next
             ELSE MetaFromFiles(files_data, i + 1, m, next)

\* One conversation list inside _extract_meta_from_trace
RECURSIVE MetaFirstSeen(_, _)
MetaFirstSeen(convs, acc) ==
    IF convs = <<>> THEN acc
    ELSE LET conv == Head(convs)
             next == [model_id |-> IF Truthy(conv.model_id) /\ ~Truthy(acc.model_id)
                                   THEN conv.model_id ELSE acc.model_id,
                      ctype |-> IF Truthy(conv.contributor_type) /\ ~Truthy(acc.ctype)
                                THEN conv.contributor_type ELSE acc.ctype,
                      url |-> IF Truthy(conv.url) /\ ~Truthy(acc.url)
                              THEN conv.url ELSE acc.url]
         IN  MetaFirstSeen(Tail(convs), next)

RECURSIVE ExtractMetaLoop(_, _)
ExtractMetaLoop(files_data, acc) ==
    IF files_data = <<>> THEN acc
    ELSE LET next == MetaFirstSeen(Head(files_data).conversations, acc)
         IN  IF Truthy(next.model_id) /\ Truthy(next.url) THEN next
             ELSE ExtractMetaLoop(Tail(files_data), next)

ExtractMetaFromTrace(trace, file_path) ==
    ExtractMetaLoop(trace.files, [model_id |-> NoneStr, url |-> NoneStr, ctype |-> NoneStr])

\* One step of the enrichment: m, u, ct of another candidate fill what is missing
TakeMissing(acc, meta) ==
    [model_id |-> IF ~Truthy(acc.model_id) /\ Truthy(meta.model_id)
                  THEN meta.model_id ELSE acc.model_id,
     url |-> IF ~Truthy(acc.url) /\ Truthy(meta.url) THEN meta.url ELSE acc.url,
     ctype |-> IF Truthy(meta.ctype) /\ acc.ctype = "unknown" THEN meta.ctype ELSE acc.ctype]

\* Enrichment from the other candidates
RECURSIVE MetaFromCandidates(_, _, _, _)
MetaFromCandidates(others, best_trace_id, file_path, acc) ==
    IF others = <<>> THEN acc
    ELSE IF Head(others).trace_id = best_trace_id
         THEN MetaFromCandidates(Tail(others), best_trace_id, file_path, acc)
    ELSE LET next == TakeMissing(acc, ExtractMetaFromTrace(Head(others), file_path))
         IN  IF Truthy(next.model_id) /\ Truthy(next.url) THEN next
             ELSE MetaFromCandidates(Tail(others), best_trace_id, file_path, next)

\* The fallback over the trace's other file entries, taken when the matched
\* entry left model_id or conversation_url missing
MetaFallback(files_data, m, own) ==
    IF ~Truthy(own.model_id) \/ ~Truthy(own.url)
    THEN MetaFromFiles(files_data, 1, m, own) ELSE own

\* The enrichment from other candidates, taken when something is still missing
MetaEnriched(other_candidates, best_trace_id, file_path, fallback) ==
    IF (~Truthy(fallback.model_id) \/ ~Truthy(fallback.url)) /\ other_candidates # <<>>
    THEN MetaFromCandidates(other_candidates, best_trace_id, file_path, fallback)
    ELSE fallback

\* return AttributionResult(...), with the conversation content looked up
ResultRecord(tier, confidence, trace, signals, commit_link_match, content_hash_match, project_id, matched_range, meta) ==
    [tier |-> tier, confidence |-> confidence, trace_id |-> trace.trace_id,
     conversation_url |-> meta.url,
     conversation_content |-> IF Truthy(meta.url)
                              THEN GetConversationContent(project_id, meta.url)
                              ELSE <<>>,
     contributor_type |-> meta.ctype, model_id |-> meta.model_id,
     tool |-> trace.tool, matched_range |-> matched_range,
     content_hash_match |-> content_hash_match,
     commit_link_match |-> commit_link_match, signals |-> signals]

BuildResult(tier, confidence, trace, file_path, line_number, content_hash, signals, commit_link_match, content_hash_match, project_id, other_candidates) ==
    LET files_data == trace.files
        m == FindMatchingFile(files_data, file_path)
        matched_range == IF m # 0 THEN GetBestRange(files_data[m], line_number) ELSE <<>>
        start == [model_id |-> NoneStr, url |-> NoneStr, ctype |-> "unknown"]
        own == IF m # 0 THEN MetaFromMatched(files_data[m].conversations, start) ELSE start
    IN  ResultRecord(tier, confidence, trace, signals, commit_link_match,
                     content_hash_match, project_id, matched_range,
                     MetaEnriched(other_candidates, trace.trace_id, file_path,
                                  MetaFallback(files_data, m, own)))

-----------------------------------------------------------------------------
(* attribute_line *)

\* Mutant: score >= best_score, so the last of several equal candidates wins
RECURSIVE PickBestLastWins(_, _, _, _)
PickBestLastWins(scores, i, best, best_score) ==
    IF i > Len(scores) THEN best
    ELSE IF scores[i].score >= best_score /\ scores[i].score > 0
         THEN PickBestLastWins(scores, i + 1, i, scores[i].score)
         ELSE PickBestLastWins(scores, i + 1, best, best_score)

\* The scoring loop: best is the index of the winning candidate (0 for None),
\* replaced only when a later candidate scores strictly higher
RECURSIVE PickBest(_, _, _, _)
PickBest(scores, i, best, best_score) ==
    IF i > Len(scores) THEN best
    ELSE IF scores[i].score > best_score
         THEN PickBest(scores, i + 1, i, scores[i].score)
         ELSE PickBest(scores, i + 1, best, best_score)

\* Mutant: the commit_link-and-revision_parent clause left out
EvidenceGateWithoutRevision(best_signals) ==
    \/ InSeq("range_match", best_signals) \/ InSeq("range_overlap", best_signals)
    \/ (InSeq("commit_link", best_signals) /\ InSeq("content_hash", best_signals))

\* Mutant: commit_link or content_hash where the code demands both
EvidenceGateEitherSignal(best_signals) ==
    \/ InSeq("range_match", best_signals) \/ InSeq("range_overlap", best_signals)
    \/ InSeq("commit_link", best_signals) \/ InSeq("content_hash", best_signals)

EvidenceGate(best_signals) ==
    LET has_range_evidence ==
            InSeq("range_match", best_signals) \/ InSeq("range_overlap", best_signals)
        has_strong_evidence ==
            InSeq("commit_link", best_signals) /\ InSeq("content_hash", best_signals)
        has_commit_and_revision ==
            InSeq("commit_link", best_signals) /\ InSeq("revision_parent", best_signals)
    IN  has_range_evidence \/ has_strong_evidence \/ has_commit_and_revision

\* The decision once the scoring loop has run: the blank result, or the result
\* built for the winner.  Returns the AttributionResult together with the values
\* the engine worked with: the candidates in selector order, their scores and
\* the winner.
Decide(project_id, file_path, line_number, content_hash, linked_trace_ids, candidates, scores, best) ==
    LET best_score == IF best = 0 THEN 0 ELSE scores[best].score
        best_signals == IF best = 0 THEN <<>> ELSE scores[best].signals
        tier == ComputeTier(best_score, best_signals)
        result ==
            IF candidates = <<>> THEN NoAttribution
            ELSE IF best = 0 \/ best_score <= 0 THEN NoAttribution
            ELSE IF ~EvidenceGate(best_signals) THEN NoAttribution
            ELSE IF tier = NoTier THEN NoAttribution
            ELSE BuildResult(tier, TierToConfidence(tier), candidates[best], file_path,
                             line_number, content_hash, best_signals,
                             InSeq("commit_link", best_signals),
                             InSeq("content_hash", best_signals),
                             project_id, candidates)
    IN  [result |-> result, linked_trace_ids |-> linked_trace_ids,
         candidates |-> candidates, scores |-> scores,
         best |-> best, best_score |-> best_score, best_signals |-> best_signals]

\* Every candidate scored, in selector order, and the winner picked
ScoreCandidates(project_id, file_path, line_number, content_hash, blame_commit, blame_parent, has_commit_link, linked_trace_ids, candidates) ==
    LET scores == [i \in 1..Len(candidates) |->
                      ScoreTrace(candidates[i], file_path, line_number, content_hash,
                                 blame_commit, blame_parent, has_commit_link,
                                 linked_trace_ids)]
    IN  Decide(project_id, file_path, line_number, content_hash, linked_trace_ids,
               candidates, scores, PickBest(scores, 1, 0, 0))

AttributeLine(project_id, file_path, line_number, blame_commit, blame_parent, content_hash, blame_timestamp, ord) ==
    LET commit_link == GetCommitLink(project_id, blame_commit)
        linked_trace_ids == IF commit_link # {}
                            THEN (CHOOSE r \in commit_link : TRUE).trace_ids ELSE <<>>
    IN  ScoreCandidates(project_id, file_path, line_number, content_hash, blame_commit,
                        blame_parent, commit_link # {}, linked_trace_ids,
                        FindCandidateTraces(project_id, file_path, blame_commit,
                                            blame_parent, blame_timestamp,
                                            linked_trace_ids, ord))

-----------------------------------------------------------------------------
(* blame_file *)

Absent == "<absent>"        \* a key the response entry does not carry

Summary(content) ==
    IF Len(content) > MAX_CONVERSATION_SUMMARY_LEN
    THEN Take(content, MAX_CONVERSATION_SUMMARY_LEN) \o <<".", ".", ".">>
    ELSE content

FormatAttribution(segment, result) ==
    LET has_contributor == Truthy(result.contributor_type) \/ Truthy(result.model_id)
        type == IF has_contributor /\ Truthy(result.contributor_type)
                THEN result.contributor_type ELSE Absent
        model == IF has_contributor /\ Truthy(result.model_id)
                 THEN result.model_id ELSE Absent
    IN  [start_line |-> segment.start_line, end_line |-> segment.end_line,
         tier |-> result.tier, confidence |-> result.confidence,
         trace_id |-> result.trace_id,
         contributor |-> [type |-> type, model_id |-> model],
         model_id |-> model, contributor_type |-> type,
         conversation_url |-> IF Truthy(result.conversation_url)
                              THEN result.conversation_url ELSE Absent,
         conversation_summary |-> IF result.conversation_content # <<>>
                                  THEN Summary(result.conversation_content) ELSE <<>>,
         tool |-> IF Truthy(result.tool) THEN result.tool ELSE Absent,
         signals |-> result.signals,
         commit_link_match |-> result.commit_link_match,
         content_hash_match |-> result.content_hash_match]

\* Mutant: the docstring's test, prev.end_line + 1 == next.start_line
ShouldMergeExactlyAdjacent(prev, entry) ==
    /\ prev.end_line + 1 = entry.start_line
    /\ prev.trace_id = entry.trace_id
    /\ prev.tier = entry.tier

\* Whether the pass folds entry into prev
ShouldMerge(prev, entry) ==
    /\ prev.end_line + 1 >= entry.start_line
    /\ prev.trace_id = entry.trace_id
    /\ prev.tier = entry.tier

\* Mutant: a fold replaces the last entry by the new one, keeping its start_line
RECURSIVE MergeLoopReplacing(_, _)
MergeLoopReplacing(raw_results, merged) ==
    IF raw_results = <<>> THEN merged
    ELSE LET entry == FormatAttribution(Head(raw_results).segment, Head(raw_results).result)
             n == Len(merged)
         IN  IF n > 0 /\ merged[n].end_line + 1 >= entry.start_line
                /\ merged[n].trace_id = entry.trace_id /\ merged[n].tier = entry.tier
             THEN MergeLoopReplacing(Tail(raw_results),
                      [merged EXCEPT ![n] = [entry EXCEPT !.start_line = merged[n].start_line]])
             ELSE MergeLoopReplacing(Tail(raw_results), Append(merged, entry))

RECURSIVE MergeLoop(_, _)
MergeLoop(raw_results, merged) ==
    IF raw_results = <<>> THEN merged
    ELSE LET entry == FormatAttribution(Head(raw_results).segment, Head(raw_results).result)
             n == Len(merged)
         IN  IF n > 0 /\ ShouldMerge(merged[n], entry)
             THEN MergeLoop(Tail(raw_results),
                            [merged EXCEPT ![n].end_line = entry.end_line])
             ELSE MergeLoop(Tail(raw_results), Append(merged, entry))

MergeAttributions(raw_results) == MergeLoop(raw_results, <<>>)

\* start_line is None or end_line is None or not commit_sha
Incomplete(segment) ==
    segment.start_line = NoLine \/ segment.end_line = NoLine \/ ~Truthy(segment.commit_sha)

\* attribute_line() takes no ledger argument: the ledger-first call raises TypeError
LedgerCallRaises == TRUE

\* raw_results.append((segment, result)), kept with the representative line and
\* the engine's working values
RawResult(segment, representative_line, a) ==
    [segment |-> segment, result |-> a.result, line_number |-> representative_line,
     work |-> a]

\* Mutant: the skip of incomplete segments left out
RECURSIVE BlameLoopWithoutSkip(_, _, _, _, _)
BlameLoopWithoutSkip(project_id, file_path, blame_data, ord, raw_results) ==
    IF blame_data = <<>> THEN [raised |-> "", raw_results |-> raw_results]
    ELSE LET segment == Head(blame_data)
             representative_line == (segment.start_line + segment.end_line) \div 2
         IN  IF Truthy(GetLedger(project_id, segment.commit_sha))
             THEN [raised |-> "TypeError", raw_results |-> raw_results]
             ELSE BlameLoopWithoutSkip(project_id, file_path, Tail(blame_data), ord,
                      Append(raw_results,
                             RawResult(segment, representative_line,
                                 AttributeLine(project_id, file_path, representative_line,
                                               segment.commit_sha, segment.parent_sha,
                                               segment.content_hash, segment.timestamp,
                                               ord))))

\* The loop over blame_data.  raw_results collects, per processed segment, the
\* segment, its AttributionResult and the engine's working values; raised names
\* the exception that ended the loop ("" when it ran to the end).
RECURSIVE BlameLoop(_, _, _, _, _)
BlameLoop(project_id, file_path, blame_data, ord, raw_results) ==
    IF blame_data = <<>> THEN [raised |-> "", raw_results |-> raw_results]
    ELSE LET segment == Head(blame_data)
             rest == Tail(blame_data)
         IN  IF Incomplete(segment)
             THEN BlameLoop(project_id, file_path, rest, ord, raw_results)
             ELSE IF Truthy(GetLedger(project_id, segment.commit_sha)) /\ LedgerCallRaises
             THEN [raised |-> "TypeError", raw_results |-> raw_results]
             ELSE LET representative_line == (segment.start_line + segment.end_line) \div 2
                  IN  BlameLoop(project_id, file_path, rest, ord,
                          Append(raw_results,
                                 RawResult(segment, representative_line,
                                     AttributeLine(project_id, file_path,
                                                   representative_line, segment.commit_sha,
                                                   segment.parent_sha, segment.content_hash,
                                                   segment.timestamp, ord))))

\* After the loop: the merged attribution list, unless the loop raised
Merged(loop) ==
    [raised |-> loop.raised,
     attributions |-> IF loop.raised = "" THEN MergeAttributions(loop.raw_results)
                      ELSE <<>>,
     raw_results |-> loop.raw_results]

\* [raised, attributions, raw_results]
BlameFile(project_id, file_path, blame_data, ord) ==
    Merged(BlameLoop(project_id, file_path, blame_data, ord, <<>>))

-----------------------------------------------------------------------------
(* Bearer tokens.  A token is a sequence of one-character strings:          *)
(* base64url(json) without padding, ".", and the first 16 hex digits of the *)
(* signature of the encoded part.  HMAC-SHA256 is stood for by a keyed      *)
(* checksum of the same shape (16 hex digits computed from the secret and   *)
(* every character of its argument, in order); like the HMAC it is assumed  *)
(* to be, the checksum differs whenever one character of its argument       *)
(* differs.                                                                 *)

\* The characters of the payload text with their byte values
AsciiTable ==
    {<<"{", 123>>, <<"}", 125>>, <<"\"", 34>>, <<":", 58>>, <<",", 44>>,
     <<" ", 32>>, <<"\\", 92>>, <<"_", 95>>, <<"a", 97>>, <<"b", 98>>,
     <<"d", 100>>, <<"e", 101>>, <<"i", 105>>, <<"r", 114>>,
     <<"s", 115>>, <<"t", 116>>, <<"u", 117>>, <<"0", 48>>, <<"1", 49>>,
     <<"2", 50>>, <<"3", 51>>, <<"4", 52>>, <<"5", 53>>, <<"6", 54>>,
     <<"7", 55>>, <<"8", 56>>, <<"9", 57>>}

Ord(c) == (CHOOSE p \in AsciiTable : p[1] = c)[2]

\* "?" stands for a byte that is no character of the payload text
Chr(n) == IF \E p \in AsciiTable : p[2] = n
          THEN (CHOOSE p \in AsciiTable : p[2] = n)[1] ELSE "?"

\* The base64url alphabet, values 0..63 at positions 1..64
B64Chars ==
    <<"A", "B", "C", "D", "E", "F", "G", "H", "I", "J", "K", "L", "M", "N",
      "O", "P", "Q", "R", "S", "T", "U", "V", "W", "X", "Y", "Z", "a", "b",
      "c", "d", "e", "f", "g", "h", "i", "j", "k", "l", "m", "n", "o", "p",
      "q", "r", "s", "t", "u", "v", "w", "x", "y", "z", "0", "1", "2", "3",
      "4", "5", "6", "7", "8", "9", "-", "_">>

IsB64Char(c) == \E i \in 1..Len(B64Chars) : B64Chars[i] = c

B64Value(c) == (CHOOSE i \in 1..Len(B64Chars) : B64Chars[i] = c) - 1

B64Char(v) == B64Chars[v + 1]

\* base64.urlsafe_b64encode(raw).decode().rstrip("="): three bytes make four
\* characters, a rest of one byte two, a rest of two bytes three
RECURSIVE B64Encode(_)
B64Encode(bytes) ==
    IF bytes = <<>> THEN <<>>
    ELSE IF Len(bytes) = 1
    THEN <<B64Char(bytes[1] \div 4), B64Char((bytes[1] % 4) * 16)>>
    ELSE IF Len(bytes) = 2
    THEN <<B64Char(bytes[1] \div 4),
           B64Char((bytes[1] % 4) * 16 + bytes[2] \div 16),
           B64Char((bytes[2] % 16) * 4)>>
    ELSE <<B64Char(bytes[1] \div 4),
           B64Char((bytes[1] % 4) * 16 + bytes[2] \div 16),
           B64Char((bytes[2] % 16) * 4 + bytes[3] \div 64),
           B64Char(bytes[3] % 64)>>
         \o B64Encode(SubSeq(bytes, 4, Len(bytes)))

\* base64.urlsafe_b64decode(encoded + "=" * (-len(encoded) % 4)) on characters
\* of the alphabet; the bits left over in a final group are dropped.  A final
\* group of one character is an error (<<-1>>).
RECURSIVE B64Decode(_)
B64Decode(chars) ==
    IF chars = <<>> THEN <<>>
    ELSE IF Len(chars) = 1 THEN <<-1>>
    ELSE IF Len(chars) = 2
    THEN <<B64Value(chars[1]) * 4 + B64Value(chars[2]) \div 16>>
    ELSE IF Len(chars) = 3
    THEN <<B64Value(chars[1]) * 4 + B64Value(chars[2]) \div 16,
           (B64Value(chars[2]) % 16) * 16 + B64Value(chars[3]) \div 4>>
    ELSE <<B64Value(chars[1]) * 4 + B64Value(chars[2]) \div 16,
           (B64Value(chars[2]) % 16) * 16 + B64Value(chars[3]) \div 4,
           (B64Value(chars[3]) % 4) * 64 + B64Value(chars[4])>>
         \o B64Decode(SubSeq(chars, 5, Len(chars)))

\* AUTH_SECRET, the default of the environment variable
AUTH_SECRET == <<"d", "e", "v", "-", "s", "e", "c", "r", "e", "t">>

PunctuationChars == <<".", "=", "!", "?", " ", "+", "/">>

\* A number for every character a token may hold: alphabet characters 1..64,
\* the others above
CharCode(c) ==
    IF IsB64Char(c) THEN B64Value(c) + 1
    ELSE IF InSeq(c, PunctuationChars)
    THEN 64 + (CHOOSE i \in 1..Len(PunctuationChars) : PunctuationChars[i] = c)
    ELSE 64 + Len(PunctuationChars) + 1

ChecksumModulus == 65521

HexChars == <<"0", "1", "2", "3", "4", "5", "6", "7",
              "8", "9", "a", "b", "c", "d", "e", "f">>

Hex4(n) ==
    <<HexChars[(n \div 4096) + 1], HexChars[((n \div 256) % 16) + 1],
      HexChars[((n \div 16) % 16) + 1], HexChars[(n % 16) + 1]>>

\* One 16-bit block of the digest: a polynomial in the characters, in order
RECURSIVE Checksum(_, _, _)
Checksum(base, text, h) ==
    IF text = <<>> THEN h
    ELSE Checksum(base, Tail(text), (h * base + CharCode(Head(text))) % ChecksumModulus)

\* hmac.new(AUTH_SECRET, payload, sha256).hexdigest()
HexDigest(payload) ==
    Hex4(Checksum(31, AUTH_SECRET \o payload, 1))
    \o Hex4(Checksum(37, AUTH_SECRET \o payload, 1))
    \o Hex4(Checksum(41, AUTH_SECRET \o payload, 1))
    \o Hex4(Checksum(43, AUTH_SECRET \o payload, 1))
    \o Hex4(Checksum(47, AUTH_SECRET \o payload, 1))

SIGNATURE_LEN == 16

\* _sign: .hexdigest()[:16]
Sign(payload) == Take(HexDigest(payload), SIGNATURE_LEN)

\* json.dumps of a string: quotes and backslashes are escaped
RECURSIVE JsonEscape(_)
JsonEscape(str) ==
    IF str = <<>> THEN <<>>
    ELSE (IF Head(str) = "\"" \/ Head(str) = "\\" THEN <<"\\", Head(str)>>
          ELSE <<Head(str)>>) \o JsonEscape(Tail(str))

\* str(n) for 0 <= n < 100
Digits(n) ==
    IF n < 10 THEN <<HexChars[n + 1]>> ELSE <<HexChars[(n \div 10) + 1], HexChars[(n % 10) + 1]>>

JsonHead == <<"{", "\"", "u", "s", "e", "r", "_", "i", "d", "\"", ":", " ", "\"">>

JsonMiddle == <<"\"", ",", " ", "\"", "i", "a", "t", "\"", ":", " ">>

\* json.dumps({"user_id": user_id, "iat": iat})
JsonDumps(user_id, iat) ==
    JsonHead \o JsonEscape(user_id) \o JsonMiddle \o Digits(iat) \o <<"}">>

\* The string literal at the head of text: [ok, value, rest], rest starting
\* at the closing quote
RECURSIVE JsonString(_, _)
JsonString(text, acc) ==
    IF text = <<>> THEN [ok |-> FALSE, value |-> acc, rest |-> <<>>]
    ELSE IF Head(text) = "\"" THEN [ok |-> TRUE, value |-> acc, rest |-> text]
    ELSE IF Head(text) = "\\"
    THEN IF Len(text) >= 2 /\ (text[2] = "\"" \/ text[2] = "\\")
         THEN JsonString(SubSeq(text, 3, Len(text)), Append(acc, text[2]))
         ELSE [ok |-> FALSE, value |-> acc, rest |-> <<>>]
    ELSE IF Head(text) = "?" THEN [ok |-> FALSE, value |-> acc, rest |-> <<>>]
    ELSE JsonString(Tail(text), Append(acc, Head(text)))

IsDigits(text) ==
    /\ text # <<>>
    /\ \A i \in 1..Len(text) : \E d \in 1..10 : HexChars[d] = text[i]

\* What follows the user_id string in a payload: ", "iat": <digits>}
JsonTail(rest) ==
    /\ StartsWith(rest, JsonMiddle)
    /\ EndsWith(rest, <<"}">>)
    /\ Len(rest) > Len(JsonMiddle) + 1
    /\ IsDigits(SubSeq(rest, Len(JsonMiddle) + 1, Len(rest) - 1))

\* json.loads(text).get("user_id") for a payload text: [ok, user_id], ok
\* FALSE when json.loads raises
JsonLoadsUserId(text) ==
    IF ~StartsWith(text, JsonHead) THEN [ok |-> FALSE, user_id |-> <<>>]
    ELSE LET str == JsonString(SubSeq(text, Len(JsonHead) + 1, Len(text)), <<>>)
         IN  IF str.ok /\ JsonTail(str.rest) THEN [ok |-> TRUE, user_id |-> str.value]
             ELSE [ok |-> FALSE, user_id |-> <<>>]

Bytes(text) == [i \in 1..Len(text) |-> Ord(text[i])]

Chars(bytes) == [i \in 1..Len(bytes) |-> Chr(bytes[i])]

\* generate_token; iat is int(time.time())
GenerateToken(user_id, iat) ==
    LET encoded == B64Encode(Bytes(JsonDumps(user_id, iat)))
    IN  encoded \o <<".">> \o Sign(encoded)

\* The index of the first "." of a token, 0 when there is none
FirstDot(token) ==
    IF InSeq(".", token)
    THEN CHOOSE i \in 1..Len(token) : token[i] = "." /\ \A j \in 1..(i - 1) : token[j] # "."
    ELSE 0

\* base64.urlsafe_b64decode reads "+" and "/" as "-" and "_" and, not
\* validating, discards every other character outside the alphabet
RECURSIVE DataChars(_)
DataChars(encoded) ==
    IF encoded = <<>> THEN <<>>
    ELSE (IF IsB64Char(Head(encoded)) THEN <<Head(encoded)>>
          ELSE IF Head(encoded) = "+" THEN <<"-">>
          ELSE IF Head(encoded) = "/" THEN <<"_">>
          ELSE <<>>) \o DataChars(Tail(encoded))

\* "=" * (-len(encoded) % 4)
Padding(encoded) == (4 - (Len(encoded) % 4)) % 4

\* binascii accepts the padded text when the last group of data characters
\* is whole or is completed by the padding
PaddingCorrect(data, pad) ==
    \/ Len(data) % 4 = 0
    \/ Len(data) % 4 = 2 /\ pad >= 2
    \/ Len(data) % 4 = 3 /\ pad >= 1

\* The payload of a token whose signature matched: None (<<>>) whenever the
\* decoding raises
DecodePayload(encoded) ==
    IF ~PaddingCorrect(DataChars(encoded), Padding(encoded)) THEN <<>>
    ELSE LET payload == JsonLoadsUserId(Chars(B64Decode(DataChars(encoded))))
         IN  IF payload.ok THEN payload.user_id ELSE <<>>

DecodeTokenUnsigned(token) ==
    IF FirstDot(token) = 0 THEN <<>>
    ELSE DecodePayload(SubSeq(token, 1, FirstDot(token) - 1))

\* decode_token: the user_id, or None (<<>>)
DecodeToken(token) ==
    LET dot == FirstDot(token)
        encoded == SubSeq(token, 1, dot - 1)
        sig == SubSeq(token, dot + 1, Len(token))
    IN  IF dot = 0 THEN <<>>
        ELSE IF Sign(encoded) # sig THEN <<>>
        ELSE DecodePayload(encoded)

-----------------------------------------------------------------------------
(* Requests.  One worker answers one request at a time: an ingestion request *)
(* is one step (its transaction commits at teardown); a blame request       *)
(* leaves its response in place until teardown.                             *)

NoRequest == [project_id |-> "", file_path |-> <<>>, blame_data |-> <<>>, ord |-> <<>>]

NoResponse == [status |-> 0, raised |-> "", attributions |-> <<>>, raw_results |-> <<>>]

\* Concurrent requests: each worker (thread or process of the WSGI server)
\* answers one request at a time with its own flask.g
Workers == {"w1", "w2"}

\* A request: its Authorization header and its JSON body; a key the body does
\* not carry holds the empty value
NoBody ==
    [endpoint |-> "", auth |-> <<>>, project_id |-> "",
     trace |-> [id |-> Absent, timestamp |-> NoTimestamp, revision |-> <<>>, tool |-> "",
                files |-> <<>>],
     conversation_contents |-> <<>>, items |-> <<>>,
     data |-> [commit_sha |-> "", parent_sha |-> <<>>, trace_ids |-> <<>>,
               files_changed |-> <<>>, committed_at |-> NoTimestamp, ledger |-> ""],
     file_path |-> <<>>, blame_data |-> <<>>, ord |-> <<>>]

\* The uncommitted writes of a transaction, per table
NoTx == [projects |-> {}, traces |-> {}, conversation_contents |-> {}, commit_links |-> {}]

\* pc: "idle" | "handler" | "responded" | "done"; conn: "none" | "open" |
\* "closed"; connects counts psycopg2.connect calls of the request
IdleWorker ==
    [pc |-> "idle", req |-> NoBody, user_id |-> <<>>, status |-> 0, exc |-> FALSE,
     step |-> 0, conn |-> "none", connects |-> 0, tx |-> NoTx, trace_ids |-> <<>>]

NoCalc == [fn |-> "", a |-> <<>>, b |-> <<>>, n |-> 0, out |-> <<>>, ok |-> FALSE]

Init ==
    /\ projects = {}
    /\ traces = {}
    /\ conversation_contents = {}
    /\ commit_links = {}
    /\ pc = "idle"
    /\ request = NoRequest
    /\ response = NoResponse
    /\ workers = [w \in Workers |-> IdleWorker]
    /\ calc = NoCalc

\* POST /api/v1/traces: trace.id and trace.timestamp are present (the route
\* answers 400 otherwise)
IngestTrace(project_id, user_id, trace, contents) ==
    /\ pc = "idle"
    /\ projects' = EnsureProject(projects, project_id)
    /\ traces' = InsertTrace(traces, project_id, user_id, trace)
    /\ conversation_contents' =
           UpsertConversationContents(conversation_contents, project_id, user_id, contents)
    /\ UNCHANGED <<commit_links, pc, request, response, workers, calc>>

\* POST /api/v1/commit-links: ValueError (400) before any write when commit_sha
\* is empty or trace_ids is empty or not a list
IngestCommitLink(project_id, user_id, data) ==
    /\ pc = "idle"
    /\ IF ~Truthy(data.commit_sha) \/ ~IsList(data.trace_ids) \/ data.trace_ids = <<>>
       THEN UNCHANGED <<projects, commit_links>>
       ELSE /\ projects' = EnsureProject(projects, project_id)
            /\ commit_links' = InsertCommitLink(commit_links, project_id, user_id, data)
    /\ UNCHANGED <<traces, conversation_contents, pc, request, response, workers, calc>>

\* return jsonify(result); an exception blame_file raises is not caught and
\* the request ends in a 500
Respond(b) ==
    [status |-> IF b.raised = "" THEN 200 ELSE 500, raised |-> b.raised,
     attributions |-> b.attributions, raw_results |-> b.raw_results]

\* POST /api/v1/blame
Blame(project_id, file_path, blame_data, ord) ==
    /\ pc = "idle"
    /\ pc' = "responded"
    /\ request' = [project_id |-> project_id, file_path |-> file_path,
                   blame_data |-> blame_data, ord |-> ord]
    /\ response' =
           IF ~Truthy(project_id) \/ file_path = <<>> \/ blame_data = <<>>
           THEN [NoResponse EXCEPT !.status = 400]
           ELSE Respond(BlameFile(project_id, file_path, blame_data, ord))
    /\ UNCHANGED <<projects, traces, conversation_contents, commit_links, workers, calc>>

\* The request ends: the response has been sent, the connection is released
Teardown ==
    /\ pc = "responded"
    /\ pc' = "idle"
    /\ request' = NoRequest
    /\ response' = NoResponse
    /\ UNCHANGED <<projects, traces, conversation_contents, commit_links, workers, calc>>

-----------------------------------------------------------------------------
(* Inputs *)

Users == {"alice"}
TraceIds == {"T1", "T2"}

PathA == <<"s", "/", "a">>      \* src/a.py
PathRel == <<"a">>              \* the same file, project-relative
PathGit == <<"g">>              \* .gitignore

HashAB == <<"a", "b">>
HashFF == <<"f", "f">>

ShaP7 == <<"p", "p", "p", "p", "p", "p", "p">>          \* abbreviated parent SHA
ShaP == ShaP7 \o <<"1">>                                  \* the full parent SHA
ShaQ == <<"q", "q", "q", "q", "q", "q", "q", "1">>     \* another commit

\* S1: one conversation with a hashed range on lines 3..4
FileS1(path) ==
    FileEntry(path, NoLine, NoLine, <<>>,
              <<Conv("u1", "ai", "m", NoLine, NoLine, <<>>,
                     <<Range(3, 4, Sha256Prefix \o HashAB)>>)>>,
              <<>>)

\* S3: touches the file far from the blamed lines, no hash
FileFar == FileEntry(PathA, NoLine, NoLine, <<>>, <<>>, <<Range(20, 21, <<>>)>>)

\* A file-level hash and no range, recorded under the relative path
FileHashOnly == FileEntry(PathRel, NoLine, NoLine, HashAB, <<>>, <<>>)

\* S4: another file of the same commit
FileGit ==
    FileEntry(PathGit, 3, 4, HashAB,
              <<Conv("u2", "human", "m2", NoLine, NoLine, <<>>, <<>>)>>, <<>>)

TraceDoc(id, timestamp, revision, files) ==
    [id |-> id, timestamp |-> timestamp, revision |-> revision, tool |-> "cursor",
     files |-> files]

LinkData(commit_sha, trace_ids, ledger) ==
    [commit_sha |-> commit_sha, parent_sha |-> ShaP7, trace_ids |-> trace_ids,
     files_changed |-> <<>>, committed_at |-> NoTimestamp, ledger |-> ledger]

Segment(span, commit_sha, parent_sha, content_hash, timestamp) ==
    [start_line |-> span[1], end_line |-> span[2], commit_sha |-> commit_sha,
     parent_sha |-> parent_sha, content_hash |-> content_hash, timestamp |-> timestamp]

IncompleteSegment == Segment(<<3, 4>>, "", <<>>, <<>>, NoTimestamp)

\* --- the engine's inputs: one segment per request, many shapes of evidence
EngineProjects == {"p1"}

EngineFileLists ==
    {<<FileGit>>, <<FileS1(PathA)>>, <<FileFar>>, <<FileHashOnly>>,
     <<FileGit, FileS1(PathA)>>}

EngineTraceDocs ==
    {TraceDoc(id, ts, rev, files) :
        id \in TraceIds, ts \in {10, 50}, rev \in {<<>>, ShaP7}, files \in EngineFileLists}

EngineLinkData ==
    {LinkData("C", ids, ledger) :
        ids \in {<<"T1">>, <<"T2">>, <<"T1", "T2">>}, ledger \in {"", "L"}}
    \cup {LinkData("", <<"T1">>, ""), LinkData("C", <<>>, ""), LinkData("C", StringIds, "")}

\* Every shape of parent and hash without a timestamp; with a timestamp (valid
\* or not) the window strategy runs, on the exact-range span; one span (4..5)
\* leaves the recorded range 3..4 after its representative line
EngineSegments ==
    {Segment(span, "C", parent, hash, NoTimestamp) :
        span \in {<<1, 2>>, <<3, 4>>, <<10, 11>>},
        parent \in {<<>>, ShaP7, ShaP, ShaQ},
        hash \in {<<>>, HashAB, HashFF}}
    \cup {Segment(<<3, 4>>, "C", parent, hash, ts) :
        parent \in {<<>>, ShaP7}, hash \in {<<>>, HashAB}, ts \in {BadTimestamp, 30}}
    \cup {Segment(<<4, 5>>, "C", parent, hash, NoTimestamp) :
        parent \in {<<>>, ShaP7}, hash \in {<<>>, HashAB}}
    \cup {IncompleteSegment}

EngineBlameData == {<<>>} \cup {<<s>> : s \in EngineSegments}

Next ==
    \/ \E p \in EngineProjects, u \in Users, t \in EngineTraceDocs :
           IngestTrace(p, u, t, <<>>)
    \/ \E p \in EngineProjects, u \in Users, d \in EngineLinkData :
           IngestCommitLink(p, u, d)
    \/ \E p \in EngineProjects, fp \in {PathA, PathRel}, bd \in EngineBlameData,
          ord \in Orders(TraceIds) :
           Blame(p, fp, bd, ord)
    \/ Teardown

Spec == Init /\ [][Next]_vars

-----------------------------------------------------------------------------
(* The merger's inputs: requests of several segments over a small store *)

MaxSegs == 3

MergeProjects == {"p1"}

MergeTraceDocs ==
    {TraceDoc("T1", 10, ShaP7, <<FileS1(PathA)>>),
     TraceDoc("T2", 10, ShaP7, <<FileS1(PathA)>>)}

MergeContents == {<<>>, <<[url |-> "u1", content |-> <<"h", "i">>]>>}

MergeLinkData ==
    {LinkData("C", <<"T1">>, ""), LinkData("E", <<"T2">>, "")}

MergeSegments ==
    {Segment(<<1, 2>>, "C", <<>>, <<>>, NoTimestamp),
     Segment(<<3, 4>>, "C", <<>>, <<>>, NoTimestamp),
     Segment(<<3, 4>>, "C", <<>>, HashAB, NoTimestamp),
     Segment(<<5, 6>>, "C", <<>>, <<>>, NoTimestamp),
     Segment(<<5, 6>>, "E", <<>>, <<>>, NoTimestamp),
     IncompleteSegment}

MergeBlameData == SeqsUpTo(MergeSegments, MaxSegs)

NextMerge ==
    \/ \E p \in MergeProjects, u \in Users, t \in MergeTraceDocs, cc \in MergeContents :
           IngestTrace(p, u, t, cc)
    \/ \E p \in MergeProjects, u \in Users, d \in MergeLinkData :
           IngestCommitLink(p, u, d)
    \/ \E p \in MergeProjects, bd \in MergeBlameData, ord \in Orders(TraceIds) :
           Blame(p, PathA, bd, ord)
    \/ Teardown

SpecMerge == Init /\ [][NextMerge]_vars

\* --- segments in line order that overlap or lie inside one another
MaxOverlapping == 2

OverlapSegments ==
    {Segment(span, "C", <<>>, <<>>, NoTimestamp) :
        span \in {<<1, 6>>, <<3, 4>>, <<3, 8>>, <<5, 6>>}}

\* Blame data sorted by start_line, as git blame lists a file
OverlapBlameData ==
    {bd \in SeqsUpTo(OverlapSegments, MaxOverlapping) :
        \A i \in 1..(Len(bd) - 1) : bd[i].start_line <= bd[i + 1].start_line}

NextOverlap ==
    \/ \E p \in MergeProjects, u \in Users, t \in MergeTraceDocs, cc \in MergeContents :
           IngestTrace(p, u, t, cc)
    \/ \E p \in MergeProjects, u \in Users, d \in MergeLinkData :
           IngestCommitLink(p, u, d)
    \/ \E p \in MergeProjects, bd \in OverlapBlameData, ord \in Orders(TraceIds) :
           Blame(p, PathA, bd, ord)
    \/ Teardown

SpecOverlap == Init /\ [][NextOverlap]_vars

-----------------------------------------------------------------------------
(* Concurrent requests.  A request is authenticated and validated (Start),  *)
(* its handler then runs its database statements one at a time (Execute),   *)
(* and Flask tears the application context down (CloseDb).  Each worker has *)
(* its own connection and transaction; the tables hold what is committed.   *)
(* PostgreSQL runs the statements at READ COMMITTED: a statement sees the   *)
(* committed rows and its own transaction's writes, and an INSERT ... ON    *)
(* CONFLICT whose key was written by another transaction still open waits   *)
(* for that transaction to end.                                             *)

BearerPrefix == <<"B", "e", "a", "r", "e", "r", " ">>

RequireAuthAnyBearer(auth) ==
    IF ~StartsWith(auth, BearerPrefix) THEN [status |-> 401, user_id |-> <<>>]
    ELSE [status |-> 0,
          user_id |-> DecodeTokenUnsigned(SubSeq(auth, Len(BearerPrefix) + 1, Len(auth)))]

\* require_auth: 401, or 0 (the handler runs) with g.user_id
RequireAuth(auth) ==
    IF ~StartsWith(auth, BearerPrefix) THEN [status |-> 401, user_id |-> <<>>]
    ELSE IF DecodeToken(SubSeq(auth, Len(BearerPrefix) + 1, Len(auth))) = <<>>
    THEN [status |-> 401, user_id |-> <<>>]
    ELSE [status |-> 0,
          user_id |-> DecodeToken(SubSeq(auth, Len(BearerPrefix) + 1, Len(auth)))]

\* The routes' checks of the body: 400, or 0
Validate(req) ==
    CASE req.endpoint = "traces" ->
             IF \/ ~Truthy(req.project_id)
                \/ req.trace.id = Absent
                \/ ~Truthy(req.trace.id)
                \/ req.trace.timestamp = NoTimestamp
             THEN 400 ELSE 0
      [] req.endpoint = "traces/batch" ->
             IF ~Truthy(req.project_id) \/ req.items = <<>> THEN 400 ELSE 0
      [] req.endpoint = "commit-links" ->
             IF \/ ~Truthy(req.project_id)
                \/ ~Truthy(req.data.commit_sha)
                \/ req.data.trace_ids = <<>>
             THEN 400 ELSE 0
      [] req.endpoint = "conversations/sync" ->
             IF ~Truthy(req.project_id) THEN 400 ELSE 0
      [] req.endpoint = "blame" ->
             IF ~Truthy(req.project_id) \/ req.file_path = <<>> \/ req.blame_data = <<>>
             THEN 400 ELSE 0

\* Mutant: the service stores whatever the route lets through
ServiceCheckNone(req) == 0

\* The service's own checks, made before its first statement: a ValueError the
\* route answers with 400, or 0
ServiceCheck(req) ==
    IF req.endpoint = "commit-links"
       /\ (\/ ~Truthy(req.data.commit_sha)
           \/ ~IsList(req.data.trace_ids)
           \/ req.data.trace_ids = <<>>)
    THEN 400 ELSE 0

Statement(op, arg) == [op |-> op, arg |-> arg]

\* upsert_conversation_contents: one INSERT per item
UpsertStatements(contents) ==
    [i \in 1..Len(contents) |-> Statement("upsert_conversation_contents", contents[i])]

\* extract_fields, insert_trace and the upsert of the contents carried; a
\* trace without "id" raises KeyError in extract_fields
TraceStatements(trace, contents) ==
    IF trace.id = Absent \/ trace.timestamp = NoTimestamp
    THEN <<Statement("raise", "KeyError")>>
    ELSE <<Statement("insert_trace", trace)>> \o UpsertStatements(contents)

RECURSIVE ItemStatements(_)
ItemStatements(items) ==
    IF items = <<>> THEN <<>>
    ELSE TraceStatements(Head(items).trace, Head(items).conversation_contents)
         \o ItemStatements(Tail(items))

BlameStatementsEnsuringProject(req) ==
    <<Statement("ensure_project", req.project_id), Statement("blame_file", req.file_path)>>

\* blame_file and attribute_line only read
BlameStatements(req) == <<Statement("blame_file", req.file_path)>>

\* The statements a handler runs, in order, for a validated request
Statements(req) ==
    CASE req.endpoint = "traces" ->
             <<Statement("ensure_project", req.project_id)>>
             \o TraceStatements(req.trace, req.conversation_contents)
      [] req.endpoint = "traces/batch" ->
             <<Statement("ensure_project", req.project_id)>> \o ItemStatements(req.items)
      [] req.endpoint = "commit-links" ->
             <<Statement("ensure_project", req.project_id),
               Statement("insert_commit_link", req.data)>>
      [] req.endpoint = "conversations/sync" ->
             IF req.conversation_contents = <<>> THEN <<>>
             ELSE <<Statement("ensure_project", req.project_id)>>
                  \o UpsertStatements(req.conversation_contents)
      [] req.endpoint = "blame" -> BlameStatements(req)

\* The status of a handler that returns
ReturnStatus(req) ==
    IF req.endpoint \in {"traces", "traces/batch", "commit-links"} THEN 201 ELSE 200

\* The trace ids a handler that returns answers with
ReturnedTraceIds(req) ==
    CASE req.endpoint = "traces" -> <<req.trace.id>>
      [] req.endpoint = "traces/batch" -> [i \in 1..Len(req.items) |-> req.items[i].trace.id]
      [] OTHER -> <<>>

\* The rows of a table a transaction sees: the committed ones, its own
\* writes in place of the rows they replace
SameContentKey(r, t) == r.project_id = t.project_id /\ r.url = t.url

SameLinkKey(r, t) == r.project_id = t.project_id /\ r.commit_sha = t.commit_sha

VisibleContents(committed, own) ==
    {r \in committed : ~\E t \in own : SameContentKey(r, t)} \cup own

VisibleLinks(committed, own) ==
    {r \in committed : ~\E t \in own : SameLinkKey(r, t)} \cup own

\* A transaction's writes after one more statement
TxAfter(tx, stmt, project_id, user_id) ==
    CASE stmt.op = "ensure_project" ->
             [tx EXCEPT !.projects =
                 EnsureProject(projects \cup tx.projects, project_id) \ projects]
      [] stmt.op = "insert_trace" ->
             [tx EXCEPT !.traces =
                 InsertTrace(traces \cup tx.traces, project_id, user_id, stmt.arg) \ traces]
      [] stmt.op = "upsert_conversation_contents" ->
             [tx EXCEPT !.conversation_contents =
                 {r \in UpsertConversationContents(
                            VisibleContents(conversation_contents, tx.conversation_contents),
                            project_id, user_id, <<stmt.arg>>) :
                     \/ r.project_id = project_id /\ r.url = stmt.arg.url
                     \/ \E t \in tx.conversation_contents : SameContentKey(r, t)}]
      [] stmt.op = "insert_commit_link" ->
             [tx EXCEPT !.commit_links =
                 {r \in InsertCommitLink(VisibleLinks(commit_links, tx.commit_links),
                                         project_id, user_id, stmt.arg) :
                     \/ r.project_id = project_id /\ r.commit_sha = stmt.arg.commit_sha
                     \/ \E t \in tx.commit_links : SameLinkKey(r, t)}]
      [] OTHER -> tx

\* The transaction tx holds the key the statement writes
Holds(tx, stmt, project_id) ==
    CASE stmt.op = "ensure_project" -> project_id \in tx.projects
      [] stmt.op = "insert_trace" ->
             \E t \in tx.traces : t.project_id = project_id /\ t.trace_id = stmt.arg.id
      [] stmt.op = "upsert_conversation_contents" ->
             \E t \in tx.conversation_contents :
                 t.project_id = project_id /\ t.url = stmt.arg.url
      [] stmt.op = "insert_commit_link" ->
             \E t \in tx.commit_links :
                 t.project_id = project_id /\ t.commit_sha = stmt.arg.commit_sha
      [] OTHER -> FALSE

Running(w) == workers[w].pc = "handler"

NextStatement(w) == Statements(workers[w].req)[workers[w].step + 1]

\* Worker w's next statement waits for worker v's transaction
WaitsFor(w, v) ==
    /\ w # v
    /\ Running(w)
    /\ Holds(workers[v].tx, NextStatement(w), workers[w].req.project_id)

\* A request arrives: require_auth (auth is its outcome), then the route's
\* validation.  No connection exists yet: get_db is first called by a
\* statement.
Arrived(req, auth) ==
    IF auth.status # 0
    THEN [IdleWorker EXCEPT !.pc = "responded", !.req = req, !.status = auth.status]
    ELSE IF Validate(req) # 0
    THEN [IdleWorker EXCEPT !.pc = "responded", !.req = req, !.user_id = auth.user_id,
                            !.status = Validate(req)]
    ELSE IF ServiceCheck(req) # 0
    THEN [IdleWorker EXCEPT !.pc = "responded", !.req = req, !.user_id = auth.user_id,
                            !.status = ServiceCheck(req)]
    ELSE IF Statements(req) = <<>>
    THEN [IdleWorker EXCEPT !.pc = "responded", !.req = req, !.user_id = auth.user_id,
                            !.status = ReturnStatus(req)]
    ELSE [IdleWorker EXCEPT !.pc = "handler", !.req = req, !.user_id = auth.user_id]

\* The worker after its statement stmt, the last one of the handler or not
AfterStatement(wk, stmt, last) ==
    [wk EXCEPT !.step = wk.step + 1,
               !.conn = "open",
               !.connects = IF wk.conn = "none" THEN wk.connects + 1 ELSE wk.connects,
               !.tx = TxAfter(wk.tx, stmt, wk.req.project_id, wk.user_id),
               !.pc = IF last THEN "responded" ELSE "handler",
               !.status = IF last THEN ReturnStatus(wk.req) ELSE 0,
               !.trace_ids = IF last THEN ReturnedTraceIds(wk.req) ELSE <<>>]

\* An exception leaves the handler: the response is a 500
Raised(wk) == [wk EXCEPT !.pc = "responded", !.status = 500, !.exc = TRUE]

\* blame_file has run over the committed rows
AfterBlame(wk, b) ==
    [wk EXCEPT !.step = wk.step + 1,
               !.conn = "open",
               !.connects = IF wk.conn = "none" THEN wk.connects + 1 ELSE wk.connects,
               !.pc = "responded",
               !.status = Respond(b).status,
               !.exc = b.raised # ""]

\* The handler's next statement
Execute(w) ==
    /\ Running(w)
    /\ \A v \in Workers : ~WaitsFor(w, v)
    /\ workers' = [workers EXCEPT ![w] =
           IF NextStatement(w).op = "raise" THEN Raised(workers[w])
           ELSE IF NextStatement(w).op = "blame_file"
           THEN AfterBlame(workers[w],
                           BlameFile(workers[w].req.project_id, workers[w].req.file_path,
                                     workers[w].req.blame_data, workers[w].req.ord))
           ELSE AfterStatement(workers[w], NextStatement(w),
                               workers[w].step + 1 = Len(Statements(workers[w].req)))]
    /\ UNCHANGED <<store, pc, request, response, calc>>

\* Two transactions wait for each other: PostgreSQL detects the deadlock and
\* fails the statement of one of them
DeadlockDetected(w) ==
    /\ \E v \in Workers : WaitsFor(w, v) /\ WaitsFor(v, w)
    /\ workers' = [workers EXCEPT ![w] = Raised(workers[w])]
    /\ UNCHANGED <<store, pc, request, response, calc>>

CloseDbAlwaysCommitting(w, fails) ==
    /\ workers[w].pc = "responded"
    /\ fails => workers[w].conn = "open"
    /\ workers' = [workers EXCEPT ![w] =
           [workers[w] EXCEPT
               !.pc = "done", !.tx = NoTx,
               !.status = IF fails THEN 500 ELSE workers[w].status,
               !.conn = IF workers[w].conn = "open" /\ ~fails THEN "closed"
                        ELSE workers[w].conn]]
    /\ IF workers[w].conn = "open" /\ ~fails
       THEN /\ projects' = projects \cup workers[w].tx.projects
            /\ traces' = traces \cup workers[w].tx.traces
            /\ conversation_contents' =
                   VisibleContents(conversation_contents, workers[w].tx.conversation_contents)
            /\ commit_links' = VisibleLinks(commit_links, workers[w].tx.commit_links)
       ELSE UNCHANGED store
    /\ UNCHANGED <<pc, request, response, calc>>

\* close_db(exc): rollback or commit, then close.  fails: commit() or
\* rollback() raises (the server is gone); close() is then not reached, the
\* exception leaves the teardown and the client is answered 500.
CloseDb(w, fails) ==
    /\ workers[w].pc = "responded"
    /\ fails => workers[w].conn = "open"
    /\ workers' = [workers EXCEPT ![w] =
           [workers[w] EXCEPT
               !.pc = "done", !.tx = NoTx,
               !.status = IF fails THEN 500 ELSE workers[w].status,
               !.conn = IF workers[w].conn = "open" /\ ~fails THEN "closed"
                        ELSE workers[w].conn]]
    /\ IF workers[w].conn = "open" /\ ~fails /\ ~workers[w].exc
       THEN /\ projects' = projects \cup workers[w].tx.projects
            /\ traces' = traces \cup workers[w].tx.traces
            /\ conversation_contents' =
                   VisibleContents(conversation_contents, workers[w].tx.conversation_contents)
            /\ commit_links' = VisibleLinks(commit_links, workers[w].tx.commit_links)
       ELSE UNCHANGED store
    /\ UNCHANGED <<pc, request, response, calc>>

\* --- the requests the workers receive
Alice == <<"a">>
Bob == <<"b">>

AliceToken == GenerateToken(Alice, 5)
BobToken == GenerateToken(Bob, 17)

Bearer(token) == BearerPrefix \o token

\* A token with its last signature character changed
Forged(token) ==
    [token EXCEPT ![Len(token)] = IF token[Len(token)] = "0" THEN "1" ELSE "0"]

\* Headers require_auth turns away: none, another scheme, a lower-case
\* scheme, a token without signature, a forged token
BadHeaders ==
    {<<>>,
     <<"B", "a", "s", "i", "c", " ">> \o AliceToken,
     <<"b", "e", "a", "r", "e", "r", " ">> \o AliceToken,
     Bearer(<<"a">>),
     Bearer(Forged(AliceToken))}

AuthHeaders == {Bearer(AliceToken), Bearer(BobToken)} \cup BadHeaders

\* require_auth over the headers of the inputs
Authenticated == [h \in AuthHeaders |-> RequireAuth(h)]

Content(url, content) == [url |-> url, content |-> content]

Item(trace, contents) == [trace |-> trace, conversation_contents |-> contents]

PostTrace(auth, project_id, trace, contents) ==
    [NoBody EXCEPT !.endpoint = "traces", !.auth = auth, !.project_id = project_id,
                   !.trace = trace, !.conversation_contents = contents]

PostBatch(auth, project_id, items) ==
    [NoBody EXCEPT !.endpoint = "traces/batch", !.auth = auth, !.project_id = project_id,
                   !.items = items]

PostCommitLink(auth, project_id, data) ==
    [NoBody EXCEPT !.endpoint = "commit-links", !.auth = auth, !.project_id = project_id,
                   !.data = data]

PostSync(auth, project_id, contents) ==
    [NoBody EXCEPT !.endpoint = "conversations/sync", !.auth = auth,
                   !.project_id = project_id, !.conversation_contents = contents]

PostBlame(auth, project_id, file_path, blame_data) ==
    [NoBody EXCEPT !.endpoint = "blame", !.auth = auth, !.project_id = project_id,
                   !.file_path = file_path, !.blame_data = blame_data,
                   !.ord = <<"T1", "T2">>]

TraceFirst == TraceDoc("T1", 10, ShaP7, <<FileS1(PathA)>>)
TraceAgain == TraceDoc("T1", 50, <<>>, <<FileFar>>)
TraceOther == TraceDoc("T2", 10, ShaP7, <<FileS1(PathA)>>)
TraceNoId == TraceDoc(Absent, 10, <<>>, <<>>)

Hi == <<"h", "i">>
Yo == <<"y", "o">>

LinkWithLedger ==
    [LinkData("C", <<"T1">>, "L") EXCEPT !.files_changed = <<PathA>>, !.committed_at = 30]

LinkWithoutLedger == [LinkData("C", <<"T2">>, "") EXCEPT !.parent_sha = ShaQ]

BlameSegment == Segment(<<3, 4>>, "C", ShaP7, HashAB, NoTimestamp)

\* A duplicate of trace T1 by another user, with other values and with
\* conversation contents
DuplicateTrace ==
    PostTrace(Bearer(BobToken), "p1", TraceAgain, <<Content("u1", Hi), Content("u2", Hi)>>)

\* A second commit link for commit C, by another user and without ledger
SecondCommitLink == PostCommitLink(Bearer(BobToken), "p1", LinkWithoutLedger)

\* Ingestion requests that pass authentication and validation
IngestRequests ==
    {PostTrace(Bearer(AliceToken), "p1", TraceFirst, <<>>),
     DuplicateTrace,
     PostTrace(Bearer(AliceToken), "p1", TraceOther,
               <<Content("u2", Yo), Content("u1", Yo)>>),
     PostBatch(Bearer(AliceToken), "p1", <<Item(TraceOther, <<>>), Item(TraceNoId, <<>>)>>),
     PostCommitLink(Bearer(AliceToken), "p1", LinkWithLedger),
     SecondCommitLink,
     PostSync(Bearer(AliceToken), "p2", <<Content("u1", Yo)>>)}

\* Commit links that fail validation: no commit_sha, no trace_ids, trace_ids
\* that is not a list; they name a project nothing else creates
InvalidCommitLinks ==
    {PostCommitLink(Bearer(AliceToken), "p3", LinkData("", <<"T1">>, "")),
     PostCommitLink(Bearer(AliceToken), "p3", LinkData("C", <<>>, "")),
     PostCommitLink(Bearer(AliceToken), "p1", LinkData("C", StringIds, "L"))}

\* Requests that write nothing: a blame, an empty sync, a body the route
\* or the service turns away
OtherRequests ==
    {PostBlame(Bearer(AliceToken), "p1", PathA, <<BlameSegment>>),
     PostBlame(Bearer(AliceToken), "p1", PathA, <<IncompleteSegment>>),
     PostSync(Bearer(AliceToken), "p1", <<>>),
     PostTrace(Bearer(AliceToken), "p1", TraceNoId, <<>>)}
    \cup InvalidCommitLinks

\* Requests without a valid bearer token
UnauthenticatedRequests ==
    {PostTrace(h, "p1", TraceFirst, <<Content("u1", Hi)>>) : h \in BadHeaders}
    \cup {PostBlame(<<>>, "p1", PathA, <<BlameSegment>>)}

Requests == IngestRequests \cup OtherRequests \cup UnauthenticatedRequests

\* What each worker receives: the second one only the requests that share
\* keys with those of the first
RequestsOf(w) == IF w = "w1" THEN Requests ELSE {DuplicateTrace, SecondCommitLink}

\* A request arrives at worker w
Start(w, req) ==
    /\ workers[w].pc \in {"idle", "done"}
    /\ workers' = [workers EXCEPT ![w] = Arrived(req, Authenticated[req.auth])]
    /\ UNCHANGED <<store, pc, request, response, calc>>

NextRequests ==
    \/ \E w \in Workers : \E req \in RequestsOf(w) : Start(w, req)
    \/ \E w \in Workers : Execute(w)
    \/ \E w \in Workers : DeadlockDetected(w)
    \/ \E w \in Workers, fails \in BOOLEAN : CloseDb(w, fails)

SpecRequests == Init /\ [][NextRequests]_vars

-----------------------------------------------------------------------------
(* Calls of the pure functions.  The arguments are drawn at the start; a    *)
(* call leaves its result in calc.                                          *)

QuietStore ==
    /\ projects = {}
    /\ traces = {}
    /\ conversation_contents = {}
    /\ commit_links = {}
    /\ pc = "idle"
    /\ request = NoRequest
    /\ response = NoResponse
    /\ workers = [w \in Workers |-> IdleWorker]

MaxDigestLen == 2

DigestChars == {"a", "b", "A"}

\* Hash strings: a digest of up to MaxDigestLen characters, bare or prefixed
HashStrings ==
    SeqsUpTo(DigestChars, MaxDigestLen)
    \cup {Sha256Prefix \o d : d \in SeqsUpTo(DigestChars, MaxDigestLen)}

MaxHashLen == Len(Sha256Prefix) + MaxDigestLen

InitHashes ==
    /\ QuietStore
    /\ calc \in {[NoCalc EXCEPT !.a = a, !.b = b, !.n = n] :
                    a \in HashStrings, b \in HashStrings, n \in 1..MaxHashLen}

\* _hashes_match(a, b)
CallHashesMatch ==
    /\ calc.fn = ""
    /\ calc' = [calc EXCEPT !.fn = "_hashes_match", !.ok = HashesMatch(calc.a, calc.b)]
    /\ UNCHANGED <<store, pc, request, response, workers>>

NextHashes == CallHashesMatch

SpecHashes == InitHashes /\ [][NextHashes]_vars

MaxUserIdLen == 2

UserIdChars == {"a", "\"", "\\"}

TokenUserIds == SeqsUpTo(UserIdChars, MaxUserIdLen) \ {<<>>}

IssuedAt == {5, 17}

\* What a tampered character is replaced by
TamperChars == {"A", "f", ".", "="}

InitTokens ==
    /\ QuietStore
    /\ calc \in {[NoCalc EXCEPT !.a = u, !.n = iat] : u \in TokenUserIds, iat \in IssuedAt}

\* generate_token(user_id) at time n
CallGenerateToken ==
    /\ calc.fn = ""
    /\ calc' = [calc EXCEPT !.fn = "generate_token", !.out = GenerateToken(calc.a, calc.n),
                            !.b = GenerateToken(calc.a, calc.n)]
    /\ UNCHANGED <<store, pc, request, response, workers>>

\* The holder of a token changes one of its characters (b keeps the token as
\* it was issued)
Tamper(i, c) ==
    /\ calc.fn = "generate_token"
    /\ i \in 1..Len(calc.out)
    /\ calc.out[i] # c
    /\ calc' = [calc EXCEPT !.fn = "tampered", !.out = [calc.out EXCEPT ![i] = c], !.n = i]
    /\ UNCHANGED <<store, pc, request, response, workers>>

NextTokens ==
    \/ CallGenerateToken
    \/ \E i \in 1..Len(calc.out), c \in TamperChars : Tamper(i, c)

SpecTokens == InitTokens /\ [][NextTokens]_vars

\* --- _check_range and _get_best_range over file entries whose ranges sit at
\* every level, in every order
MaxRanges == 2

\* (start_line, end_line): two short ranges, one around both, one far away
RangeSpans == {<<3, 4>>, <<8, 9>>, <<2, 10>>, <<20, 21>>}

RangeLines == {3, 6, 9, 14, 30}

RangeRecords == {Range(sp[1], sp[2], <<>>) : sp \in RangeSpans}

OptionalSpans == RangeSpans \cup {<<NoLine, NoLine>>}

RangeFileEntries ==
    {FileEntry(PathA, f[1], f[2], <<>>,
               <<Conv("u1", "ai", "m", c[1], c[2], <<>>, rs)>>, chs) :
        f \in OptionalSpans, c \in OptionalSpans,
        rs \in SeqsUpTo(RangeRecords, MaxRanges), chs \in SeqsUpTo(RangeRecords, 1)}

InitRanges ==
    /\ QuietStore
    /\ calc \in {[NoCalc EXCEPT !.a = e, !.n = n] : e \in RangeFileEntries, n \in RangeLines}

\* The range signal _score_trace appends for the matched file entry a at line n
CallCheckRange ==
    /\ calc.fn = ""
    /\ calc' = [calc EXCEPT !.fn = "_check_range", !.out = RangeSignal(calc.a, calc.n)]
    /\ UNCHANGED <<store, pc, request, response, workers>>

\* _get_best_range(a, n)
CallGetBestRange ==
    /\ calc.fn = ""
    /\ calc' = [calc EXCEPT !.fn = "_get_best_range", !.out = GetBestRange(calc.a, calc.n)]
    /\ UNCHANGED <<store, pc, request, response, workers>>

NextRanges == CallCheckRange \/ CallGetBestRange

SpecRanges == InitRanges /\ [][NextRanges]_vars

-----------------------------------------------------------------------------
(* Properties.  They read the answered request: the segments it carried, the *)
(* engine's working values per processed segment (response.raw_results) and *)
(* the merged output (response.attributions).                               *)

Answered == pc = "responded" /\ response.status = 200

Processed == 1..Len(response.raw_results)

SignalSet(signals) == {signals[i] : i \in 1..Len(signals)}

\* The evidence gate of the specification, on a set of signal names
GateAdmits(S) ==
    \/ "range_match" \in S
    \/ "range_overlap" \in S
    \/ {"commit_link", "content_hash"} \subseteq S
    \/ {"commit_link", "revision_parent"} \subseteq S

StructuralFired(S) ==
    S \cap {"commit_link", "content_hash", "revision_parent",
            "range_match", "range_overlap"} # {}

\* A segment blame_file does not skip
Complete(segment) ==
    segment.start_line # NoLine /\ segment.end_line # NoLine /\ segment.commit_sha # ""

HasStoredLedger(project_id, commit_sha) ==
    \E r \in commit_links :
        r.project_id = project_id /\ r.commit_sha = commit_sha /\ r.ledger # NoneStr

\* C1 (as claimed): a complete blame segment whose commit has a commit link
\* stored with a non-null ledger makes blame_file return, without raising, a
\* tier-1 attribution covering that segment.
C1_LedgerPrecedence ==
    (pc = "responded" /\ response.status # 400) =>
        \A i \in 1..Len(request.blame_data) :
            LET seg == request.blame_data[i]
            IN  (Complete(seg) /\ HasStoredLedger(request.project_id, seg.commit_sha)) =>
                    /\ response.raised = ""
                    /\ \E j \in 1..Len(response.attributions) :
                           /\ response.attributions[j].tier = 1
                           /\ response.attributions[j].start_line <= seg.start_line
                           /\ seg.end_line <= response.attributions[j].end_line

\* The hashed ranges of the file entry of trace t that matches file_path
HashedRangesAt(t, file_path, line_number) ==
    {r \in UNION {UNION {{c.ranges[k] : k \in 1..Len(c.ranges)} :
                         c \in {f.conversations[n] : n \in 1..Len(f.conversations)}} :
                  f \in {t.files[m] : m \in 1..Len(t.files)} \cap
                        {g \in {t.files[m] : m \in 1..Len(t.files)} :
                            PathMatches(g.path, file_path)}} :
        r.start_line <= line_number /\ line_number <= r.end_line}

\* Scenario S1 for a processed segment: no parent_sha, a content hash, the
\* winner named in the commit link with a range containing the line whose hash
\* matches the blame hash
S1Case(rr) ==
    /\ rr.segment.parent_sha = <<>>
    /\ rr.segment.content_hash # <<>>
    /\ rr.work.best # 0
    /\ LET t == rr.work.candidates[rr.work.best]
       IN  /\ InSeq(t.trace_id, rr.work.linked_trace_ids)
           /\ \E r \in HashedRangesAt(t, request.file_path, rr.line_number) :
                  r.content_hash # <<>> /\ HashesMatch(rr.segment.content_hash, r.content_hash)

\* C2 (as claimed): in scenario S1 the result is tier 1 with confidence 1.0, the
\* winner's trace_id, and signals commit_link, content_hash and range_match.
C2_S1IsTier1 ==
    Answered =>
        \A i \in Processed :
            LET rr == response.raw_results[i]
            IN  S1Case(rr) =>
                    /\ rr.result.tier = 1
                    /\ rr.result.confidence = 1000
                    /\ rr.result.trace_id = rr.work.candidates[rr.work.best].trace_id
                    /\ {"commit_link", "content_hash", "range_match"}
                           \subseteq SignalSet(rr.result.signals)

\* C3 (as claimed): tier is non-null iff a structural signal fired for the
\* winning candidate iff the evidence gate passed on the winning signal set.
C3_ThreeWayEquivalence ==
    Answered =>
        \A i \in Processed :
            LET rr == response.raw_results[i]
                S == SignalSet(rr.work.best_signals)
            IN  /\ (rr.result.tier # NoTier) <=> StructuralFired(S)
                /\ StructuralFired(S) <=> GateAdmits(S)

\* C3 (amended): tier is non-null iff the evidence gate passed on the winning
\* signal set, and then a structural signal fired for the winning candidate.
C3_TierIffGate ==
    Answered =>
        \A i \in Processed :
            LET rr == response.raw_results[i]
                S == SignalSet(rr.work.best_signals)
            IN  /\ (rr.result.tier # NoTier) <=> GateAdmits(S)
                /\ (rr.result.tier # NoTier) => StructuralFired(S)

C3_Witness ==
    /\ Answered
    /\ \E i \in Processed :
           /\ response.raw_results[i].result.tier # NoTier
           /\ GateAdmits(SignalSet(response.raw_results[i].work.best_signals))
           /\ ~({"range_match", "range_overlap"}
                    \cap SignalSet(response.raw_results[i].work.best_signals) # {})

\* C4: a result carries a tier or a trace_id only if the evidence gate admits
\* the winning signal set; otherwise it is the blank no-attribution result.
C4_EvidenceGate ==
    Answered =>
        \A i \in Processed :
            LET rr == response.raw_results[i]
                S == SignalSet(rr.work.best_signals)
            IN  /\ (rr.result.tier # NoTier \/ rr.result.trace_id # NoneStr) => GateAdmits(S)
                /\ ~GateAdmits(S) =>
                       rr.result =
                           [tier |-> NoTier, confidence |-> 0, trace_id |-> NoneStr,
                            conversation_url |-> NoneStr, conversation_content |-> <<>>,
                            contributor_type |-> NoneStr, model_id |-> NoneStr,
                            tool |-> NoneStr, matched_range |-> <<>>,
                            content_hash_match |-> FALSE, commit_link_match |-> FALSE,
                            signals |-> <<>>]

\* A winner with a positive score and a structural signal that the gate denies
C4_Witness ==
    /\ Answered
    /\ \E i \in Processed :
           LET rr == response.raw_results[i]
           IN  /\ rr.work.best_score > 0
               /\ StructuralFired(SignalSet(rr.work.best_signals))
               /\ ~GateAdmits(SignalSet(rr.work.best_signals))
               /\ rr.result.tier = NoTier

\* C5: a tier-1 result has commit_link and content_hash among its signals, both
\* match flags set, and confidence exactly 1.0; so has every tier-1 entry of
\* the output.
C5_Tier1 ==
    Answered =>
        /\ \A i \in Processed :
               LET r == response.raw_results[i].result
               IN  r.tier = 1 =>
                       /\ {"commit_link", "content_hash"} \subseteq SignalSet(r.signals)
                       /\ r.commit_link_match /\ r.content_hash_match
                       /\ r.confidence = 1000
        /\ \A j \in 1..Len(response.attributions) :
               LET e == response.attributions[j]
               IN  e.tier = 1 =>
                       /\ {"commit_link", "content_hash"} \subseteq SignalSet(e.signals)
                       /\ e.commit_link_match /\ e.content_hash_match
                       /\ e.confidence = 1000

C5_Witness ==
    /\ Answered
    /\ \E j \in 1..Len(response.attributions) : response.attributions[j].tier = 1

\* The documented path rule: equal, or one path ends with the other
TouchesByRule(t, file_path) ==
    \E m \in 1..Len(t.files) :
        LET path == t.files[m].path
        IN  \/ path = file_path
            \/ \E k \in 0..Len(path) : SubSeq(path, k + 1, Len(path)) = file_path
            \/ \E k \in 0..Len(file_path) : SubSeq(file_path, k + 1, Len(file_path)) = path

\* C6: every candidate the selector returns, and every trace a blame on
\* file_path attributes, has a file entry matching file_path by the path rule.
C6_FileFilter ==
    Answered =>
        /\ \A i \in Processed :
               LET cands == response.raw_results[i].work.candidates
               IN  \A n \in 1..Len(cands) : TouchesByRule(cands[n], request.file_path)
        /\ \A j \in 1..Len(response.attributions) :
               LET e == response.attributions[j]
               IN  e.trace_id # NoneStr =>
                       \E t \in traces :
                           /\ t.project_id = request.project_id
                           /\ t.trace_id = e.trace_id
                           /\ TouchesByRule(t, request.file_path)

\* S4: the commit link names a stored trace that touches only other files, and
\* the blame attributes the segment to another trace
C6_Witness ==
    /\ Answered
    /\ \E i \in Processed :
           LET rr == response.raw_results[i]
           IN  /\ rr.result.trace_id # NoneStr
               /\ \E t \in traces :
                      /\ t.project_id = request.project_id
                      /\ InSeq(t.trace_id, rr.work.linked_trace_ids)
                      /\ ~TouchesByRule(t, request.file_path)
                      /\ t.trace_id # rr.result.trace_id

\* The strategy that brings a candidate in: 1 commit link, 2 parent revision,
\* 3 time window
StrategyRank(rr, t) ==
    IF InSeq(t.trace_id, rr.work.linked_trace_ids) THEN 1
    ELSE IF rr.segment.parent_sha # <<>> /\ t.revision = rr.segment.parent_sha THEN 2
    ELSE 3

\* C7: candidates come in strategy order without duplicates; the winner has
\* the top score and is the first candidate with it, so at equal top score a
\* commit-linked trace beats a parent-revision trace beats a time-window trace.
C7_TieBreaking ==
    Answered =>
        \A i \in Processed :
            LET rr == response.raw_results[i]
                w == rr.work
                n == Len(w.candidates)
            IN  /\ \A a, b \in 1..n :
                       a < b => /\ w.candidates[a].trace_id # w.candidates[b].trace_id
                                /\ StrategyRank(rr, w.candidates[a])
                                       <= StrategyRank(rr, w.candidates[b])
                /\ w.best = 0 => \A a \in 1..n : w.scores[a].score <= 0
                /\ w.best # 0 =>
                       \A a \in 1..n :
                           /\ w.scores[a].score <= w.scores[w.best].score
                           /\ w.scores[a].score = w.scores[w.best].score =>
                                  /\ w.best <= a
                                  /\ StrategyRank(rr, w.candidates[w.best])
                                         <= StrategyRank(rr, w.candidates[a])

\* Two candidates of different strategies tie at the top score
C7_Witness ==
    /\ Answered
    /\ \E i \in Processed :
           LET rr == response.raw_results[i]
               w == rr.work
           IN  /\ w.best # 0
               /\ \E a \in 1..Len(w.candidates) :
                      /\ a # w.best
                      /\ w.scores[a].score = w.scores[w.best].score
                      /\ StrategyRank(rr, w.candidates[w.best])
                             < StrategyRank(rr, w.candidates[a])

-----------------------------------------------------------------------------
(* Segment merging *)

SameAttribution(prev, next) == prev.trace_id = next.trace_id /\ prev.tier = next.tier

MergedPrefix(k) == MergeAttributions(SubSeq(response.raw_results, 1, k))

EntryOf(k) ==
    FormatAttribution(response.raw_results[k].segment, response.raw_results[k].result)

\* The merge rule for the k-th processed segment
Folds(k) ==
    /\ MergedPrefix(k - 1) # <<>>
    /\ LET last == MergedPrefix(k - 1)[Len(MergedPrefix(k - 1))]
       IN  /\ last.end_line + 1 >= EntryOf(k).start_line
           /\ last.trace_id = EntryOf(k).trace_id
           /\ last.tier = EntryOf(k).tier

RECURSIVE IsSubsequence(_, _)
IsSubsequence(a, b) ==
    IF a = <<>> THEN TRUE
    ELSE IF b = <<>> THEN FALSE
    ELSE IF Head(a) = Head(b) THEN IsSubsequence(Tail(a), Tail(b))
    ELSE IsSubsequence(a, Tail(b))

StartLines(entries) == [i \in 1..Len(entries) |-> entries[i].start_line]

RECURSIVE CompleteSegments(_)
CompleteSegments(blame_data) ==
    IF blame_data = <<>> THEN <<>>
    ELSE (IF Complete(Head(blame_data)) THEN <<Head(blame_data)>> ELSE <<>>)
         \o CompleteSegments(Tail(blame_data))

\* C10: the complete segments are processed in the order supplied, the output
\* start lines are, in order, a subsequence of theirs, and there are never more
\* output entries than input segments.
C10_OrderPreserved ==
    Answered =>
        /\ [i \in Processed |-> response.raw_results[i].segment]
               = CompleteSegments(request.blame_data)
        /\ IsSubsequence(StartLines(response.attributions),
                         StartLines(CompleteSegments(request.blame_data)))
        /\ Len(response.attributions) <= Len(request.blame_data)

\* A skipped segment, and entries left with different start lines
C10_Witness ==
    /\ Answered
    /\ Len(response.raw_results) < Len(request.blame_data)
    /\ Len(response.attributions) >= 2
    /\ response.attributions[1].start_line # response.attributions[2].start_line

-----------------------------------------------------------------------------
(* Properties of the pure functions (SpecTokens, SpecHashes) *)

\* C18 (token round trip and tamper rejection): decoding a generated token
\* gives back the user_id it was generated for, its signature part is 16
\* characters long, and a token with any one character of the payload part or
\* of the signature part changed decodes to None.
C18_RoundTripAndTamper ==
    /\ calc.fn = "generate_token" =>
           /\ DecodeToken(calc.out) = calc.a
           /\ Len(calc.out) - FirstDot(calc.out) = SIGNATURE_LEN
    /\ calc.fn = "tampered" /\ calc.n # FirstDot(calc.b) => DecodeToken(calc.out) = <<>>

\* A user_id that needs escaping, and a signature character replaced by
\* another hex digit
C18_Witness ==
    /\ calc.fn = "tampered"
    /\ InSeq("\"", calc.a)
    /\ DecodeToken(calc.b) = calc.a
    /\ calc.n > FirstDot(calc.b)
    /\ calc.out[calc.n] = "f"

\* The argument h with its digest (what follows the optional "sha256:")
\* cut to n characters
TruncateDigest(h, n) ==
    IF StartsWith(h, Sha256Prefix) THEN Sha256Prefix \o Take(RemovePrefix(h), n)
    ELSE Take(h, n)

\* C20 as stated: _hashes_match is symmetric, and a match survives cutting
\* either argument to any length >= 1.
C20_SymmetricAndPrefixStable ==
    calc.fn = "_hashes_match" =>
        /\ calc.ok = HashesMatch(calc.b, calc.a)
        /\ calc.ok => /\ HashesMatch(Take(calc.a, calc.n), calc.b)
                      /\ HashesMatch(calc.a, Take(calc.b, calc.n))

\* C20 (amended): _hashes_match is symmetric, and a match survives cutting
\* the digest of either argument, the part after the optional "sha256:", to
\* any length >= 1.
C20_SymmetricAndDigestStable ==
    calc.fn = "_hashes_match" =>
        /\ calc.ok = HashesMatch(calc.b, calc.a)
        /\ calc.ok => /\ HashesMatch(TruncateDigest(calc.a, calc.n), calc.b)
                      /\ HashesMatch(calc.a, TruncateDigest(calc.b, calc.n))

\* A prefixed hash matching a bare one of another case, its digest really cut
C20_Witness ==
    /\ calc.fn = "_hashes_match"
    /\ calc.ok
    /\ StartsWith(calc.a, Sha256Prefix)
    /\ ~StartsWith(calc.b, Sha256Prefix)
    /\ calc.n < Len(RemovePrefix(calc.a))
    /\ RemovePrefix(calc.a) # calc.b

-----------------------------------------------------------------------------
(* Properties of concurrent requests (SpecRequests).  They read a step of   *)
(* one worker: the worker before it, the worker after it and the tables.    *)

Changed(w) == workers'[w] # workers[w]

\* The step is close_db committing worker w's transaction
Committing(w) ==
    /\ workers[w].pc = "responded"
    /\ workers[w].conn = "open"
    /\ ~workers[w].exc
    /\ workers'[w].conn = "closed"

\* The trace documents a request carries
RequestTraces(req) ==
    IF req.endpoint = "traces" THEN {req.trace}
    ELSE IF req.endpoint = "traces/batch"
    THEN {req.items[i].trace : i \in 1..Len(req.items)}
    ELSE {}

SameTraceKey(r, q) == r.project_id = q.project_id /\ r.trace_id = q.trace_id

\* C11 (first write wins): there is at most one trace row per (project_id,
\* trace_id); a row, once committed, never changes or disappears, whatever
\* later ingests carry; and a new row is the row of a trace of the request
\* being committed.
C11_FirstWriteWins ==
    [][/\ \A r \in traces : r \in traces'
       /\ \A r \in traces', q \in traces' : SameTraceKey(r, q) => r = q
       /\ \A r \in traces' \ traces :
              \E w \in Workers :
                  /\ Committing(w)
                  /\ \E t \in RequestTraces(workers[w].req) :
                         r = TraceRow(workers[w].req.project_id, workers[w].user_id, t)]_vars

\* Trace T1 was stored with timestamp 10, and a later ingest of T1 with
\* timestamp 50 by another user has been committed without error
C11_Witness ==
    /\ \E r \in traces :
           /\ r.project_id = "p1" /\ r.trace_id = "T1"
           /\ r.trace_timestamp = 10 /\ r.user_id = Alice
    /\ \E w \in Workers :
           /\ workers[w].pc = "done"
           /\ workers[w].req = DuplicateTrace
           /\ workers[w].status = 201
           /\ workers[w].conn = "closed"

\* Worker w is answering POST /api/v1/traces for a trace whose key is stored
DuplicateIngest(w) ==
    /\ workers[w].pc \in {"handler", "responded"}
    /\ workers[w].req.endpoint = "traces"
    /\ workers[w].status \in {0, 201}
    /\ \E r \in traces :
           /\ r.project_id = workers[w].req.project_id
           /\ r.trace_id = workers[w].req.trace.id

\* C12 (a duplicate ingest is a silent no-op): every step of a request that
\* ingests a trace already stored, its commit included, leaves projects,
\* traces, conversation contents and commit links as they were, and the
\* request, unless its statement is the victim of a deadlock, answers 201
\* with the trace_id.
C12_DuplicateIsNoOp ==
    [][\A w \in Workers :
           Changed(w) /\ DuplicateIngest(w) /\ ~workers'[w].exc =>
               /\ store' = store
               /\ workers'[w].status \in {0, 201}
               /\ workers'[w].status = 201 =>
                      workers'[w].trace_ids = <<workers[w].req.trace.id>>]_vars

\* The rows of commit_links with the key of worker w's request
LinkRows(rows, w) ==
    {r \in rows : /\ r.project_id = workers[w].req.project_id
                  /\ r.commit_sha = workers[w].req.data.commit_sha}

\* C13 (commit links are last-write-wins): there is never more than one row
\* per (project_id, commit_sha); when an ingest_commit_link call is committed
\* the row of its key has the parent_sha, trace_ids, files_changed,
\* committed_at, ledger (NULL for none) and user_id of that call, and
\* get_ledger returns the call's ledger, none if it carried none; a row
\* changes at no other step.
C13_LastWriteWins ==
    [][/\ \A r \in commit_links', q \in commit_links' : SameLinkKey(r, q) => r = q
       /\ \A w \in Workers :
              Committing(w) /\ workers[w].req.endpoint = "commit-links" =>
                  /\ LinkRows(commit_links', w) =
                         {[project_id |-> workers[w].req.project_id,
                           user_id |-> workers[w].user_id,
                           commit_sha |-> workers[w].req.data.commit_sha,
                           parent_sha |-> workers[w].req.data.parent_sha,
                           trace_ids |-> workers[w].req.data.trace_ids,
                           files_changed |-> workers[w].req.data.files_changed,
                           committed_at |-> workers[w].req.data.committed_at,
                           ledger |-> IF Truthy(workers[w].req.data.ledger)
                                      THEN workers[w].req.data.ledger ELSE NoneStr]}
                  /\ GetLedger(workers[w].req.project_id, workers[w].req.data.commit_sha)'
                         = IF Truthy(workers[w].req.data.ledger)
                           THEN workers[w].req.data.ledger ELSE NoneStr
       /\ commit_links' # commit_links =>
              \E w \in Workers : Committing(w) /\ workers[w].req.endpoint = "commit-links"]_vars

\* Both calls for commit C were committed, the one with a ledger first: the
\* row is that of the second call and get_ledger returns none
C13_Witness ==
    /\ \E w \in Workers :
           /\ workers[w].pc = "done" /\ workers[w].conn = "closed"
           /\ workers[w].status = 201
           /\ workers[w].req.endpoint = "commit-links"
           /\ workers[w].req.data = LinkWithLedger
    /\ \E w \in Workers :
           /\ workers[w].pc = "done" /\ workers[w].conn = "closed"
           /\ workers[w].status = 201
           /\ workers[w].req = SecondCommitLink
    /\ GetCommitLink("p1", "C") # {}
    /\ \A r \in GetCommitLink("p1", "C") :
           r.user_id = Bob /\ r.trace_ids = <<"T2">> /\ r.parent_sha = ShaQ
    /\ GetLedger("p1", "C") = NoneStr

\* The step is one of a blame request of worker w: its arrival, its run or
\* its teardown
BlameStep(w) ==
    /\ Changed(w)
    /\ \/ workers'[w].req.endpoint = "blame" /\ workers'[w].pc # "done"
       \/ workers[w].req.endpoint = "blame" /\ workers[w].pc = "responded"

\* C14 (blame never mutates): no step of a blame request, whatever its
\* outcome, changes projects, traces, conversation contents or commit links.
C14_BlameReadsOnly ==
    [][\A w \in Workers : BlameStep(w) => store' = store]_vars

\* A blame that raised (the ledger call) has been torn down, over a store
\* that holds a trace and a commit link with a ledger
C14_Witness ==
    /\ workers["w1"].pc = "done"
    /\ workers["w1"].req.endpoint = "blame"
    /\ workers["w1"].status = 500
    /\ workers["w1"].exc
    /\ workers["w1"].conn = "closed"
    /\ traces # {}
    /\ GetLedger("p1", "C") # NoneStr

\* The last content a request carries for a url (<<>> when it carries none)
RECURSIVE LastContent(_, _, _)
LastContent(contents, url, acc) ==
    IF contents = <<>> THEN acc
    ELSE LastContent(Tail(contents), url,
                     IF Head(contents).url = url THEN Head(contents).content ELSE acc)

\* The conversation contents a request carries, in order
RECURSIVE ItemContents(_)
ItemContents(items) ==
    IF items = <<>> THEN <<>>
    ELSE Head(items).conversation_contents \o ItemContents(Tail(items))

RequestContents(req) ==
    IF req.endpoint \in {"traces", "conversations/sync"} THEN req.conversation_contents
    ELSE IF req.endpoint = "traces/batch" THEN ItemContents(req.items)
    ELSE <<>>

\* Every write of request req is in the tables after the step
AllWritesVisible(req) ==
    /\ req.project_id \in projects'
    /\ \A t \in RequestTraces(req) :
           \E r \in traces' : r.project_id = req.project_id /\ r.trace_id = t.id
    /\ \A i \in 1..Len(RequestContents(req)) :
           \E r \in conversation_contents' :
               /\ r.project_id = req.project_id
               /\ r.url = RequestContents(req)[i].url
               /\ r.content = LastContent(RequestContents(req), r.url, <<>>)
    /\ req.endpoint = "commit-links" =>
           \E r \in commit_links' :
               r.project_id = req.project_id /\ r.commit_sha = req.data.commit_sha

\* C15 (a request is one transaction): the tables change only at the step
\* that commits a request that did not raise, and after that step all the
\* writes of the request are there; all other steps, in particular every
\* step of a request that raised and its teardown, leave the tables as they
\* were.
C15_TransactionalPerRequest ==
    [][\A w \in Workers :
           Changed(w) =>
               IF Committing(w)
               THEN workers[w].req.endpoint # "blame" => AllWritesVisible(workers[w].req)
               ELSE store' = store]_vars

\* A batch whose second item has no trace id: the project row and the first
\* item's trace were written, the request raised and has been torn down, and
\* nothing of it is stored
C15_Witness ==
    /\ workers["w1"].pc = "done"
    /\ workers["w1"].req.endpoint = "traces/batch"
    /\ workers["w1"].exc
    /\ workers["w1"].status = 500
    /\ workers["w1"].step = 2
    /\ workers["w1"].conn = "closed"
    /\ projects = {}
    /\ traces = {}

\* C16 (connection lifecycle): a request opens at most one connection, and
\* once the request has ended, on whatever path, its connection is closed.
C16_ConnectionClosed ==
    \A w \in Workers :
        /\ workers[w].connects <= 1
        /\ workers[w].pc \in {"idle", "done"} => workers[w].conn # "open"

\* Worker w is answering an ingestion request none of whose statements raises
ValidIngest(w) ==
    /\ workers[w].pc \in {"handler", "responded"}
    /\ workers[w].req \in IngestRequests
    /\ \A i \in 1..Len(Statements(workers[w].req)) :
           Statements(workers[w].req)[i].op # "raise"

\* C17 (concurrent ingests converge without error): while two ingestion
\* requests are in flight together neither of them fails, and no table ever
\* holds two rows with one key.
C17_ConcurrentIngestsSucceed ==
    /\ \A w \in Workers, v \in Workers :
           w # v /\ ValidIngest(w) /\ ValidIngest(v) => workers[w].status # 500
    /\ \A r \in traces, q \in traces : SameTraceKey(r, q) => r = q
    /\ \A r \in conversation_contents, q \in conversation_contents :
           SameContentKey(r, q) => r = q
    /\ \A r \in commit_links, q \in commit_links : SameLinkKey(r, q) => r = q

\* The header is missing, is not "Bearer <token>", or its token is one
\* decode_token rejects
Rejected(auth) ==
    \/ ~StartsWith(auth, BearerPrefix)
    \/ DecodeToken(SubSeq(auth, Len(BearerPrefix) + 1, Len(auth))) = <<>>

RejectedHeaders == {h \in AuthHeaders : Rejected(h)}

\* C19 (auth gating): a request with a rejected Authorization header is
\* answered 401, runs no statement of a handler, opens no connection and
\* changes no table; a request with a valid token is never answered 401,
\* whatever project it names.
C19_AuthGating ==
    [][\A w \in Workers :
           Changed(w) =>
               IF workers'[w].req.auth \in RejectedHeaders
               THEN /\ workers'[w].status = 401
                    /\ workers'[w].pc \in {"responded", "done"}
                    /\ workers'[w].step = 0
                    /\ workers'[w].connects = 0
                    /\ workers'[w].tx = NoTx
                    /\ store' = store
               ELSE workers'[w].status # 401]_vars

\* A request with a forged token has been answered 401, and the token of one
\* user has written to two projects
C19_Witness ==
    /\ workers["w1"].pc = "done"
    /\ workers["w1"].status = 401
    /\ workers["w1"].req.auth = Bearer(Forged(AliceToken))
    /\ \E r \in traces : r.project_id = "p1" /\ r.user_id = Alice
    /\ \E r \in conversation_contents : r.project_id = "p2" /\ r.user_id = Alice

-----------------------------------------------------------------------------
(* Scenario S3: the winner is named in the commit link and touches the file  *)
(* only far from the blamed line; the blame carries a parent and no hash    *)

\* Every collected range of the winner's matched file entry lies further than
\* the overlap margin from the line
TouchesOnlyFar(t, file_path, line_number) ==
    LET ranges == CollectRanges(t.files[FindMatchingFile(t.files, file_path)])
    IN  /\ ranges # <<>>
        /\ \A k \in 1..Len(ranges) :
               line_number < ranges[k][1] - 5 \/ line_number > ranges[k][2] + 5

S3Case(rr) ==
    /\ rr.segment.content_hash = <<>>
    /\ rr.segment.parent_sha # <<>>
    /\ rr.work.best # 0
    /\ InSeq(rr.work.candidates[rr.work.best].trace_id, rr.work.linked_trace_ids)
    /\ TouchesOnlyFar(rr.work.candidates[rr.work.best], request.file_path, rr.line_number)

\* C21 (as claimed): in scenario S3, when the trace's vcs.revision equals the
\* blame parent the signals are commit_link and revision_parent, the score is
\* 55, the gate admits and the tier is 3; when it differs the only signal is
\* commit_link, the gate denies and the tier is null.
C21_S3Suppression ==
    Answered =>
        \A i \in Processed :
            LET rr == response.raw_results[i]
                S == SignalSet(rr.work.best_signals)
            IN  S3Case(rr) =>
                    IF rr.work.candidates[rr.work.best].revision = rr.segment.parent_sha
                    THEN /\ S = {"commit_link", "revision_parent"}
                         /\ rr.work.best_score = 55
                         /\ GateAdmits(S)
                         /\ rr.result.tier = 3
                    ELSE /\ S = {"commit_link"}
                         /\ ~GateAdmits(S)
                         /\ rr.result.tier = NoTier

\* The revision names the parent: the same SHA, or one abbreviating the other
\* with at least seven characters
NamesParent(revision, parent) ==
    /\ revision # <<>>
    /\ \/ revision = parent
       \/ Len(revision) >= 7 /\ Len(parent) >= 7
          /\ (StartsWith(revision, parent) \/ StartsWith(parent, revision))

\* C21 (amended): in scenario S3 the stored trace timestamp adds
\* timestamp_match; when the revision names the parent the signals are
\* commit_link, revision_parent and timestamp_match, the score is 60, the gate
\* admits and the tier is 3; otherwise the signals are commit_link and
\* timestamp_match, the score is 45, the gate denies and the tier is null.
C21_S3WithTimestamp ==
    Answered =>
        \A i \in Processed :
            LET rr == response.raw_results[i]
                S == SignalSet(rr.work.best_signals)
            IN  S3Case(rr) =>
                    IF NamesParent(rr.work.candidates[rr.work.best].revision,
                                   rr.segment.parent_sha)
                    THEN /\ S = {"commit_link", "revision_parent", "timestamp_match"}
                         /\ rr.work.best_score = 60
                         /\ GateAdmits(S)
                         /\ rr.result.tier = 3
                         /\ rr.result.trace_id = rr.work.candidates[rr.work.best].trace_id
                    ELSE /\ S = {"commit_link", "timestamp_match"}
                         /\ rr.work.best_score = 45
                         /\ ~GateAdmits(S)
                         /\ rr.result.tier = NoTier
                         /\ rr.result.trace_id = NoneStr

\* Both branches of S3 are answered: admitted through an abbreviated parent
\* SHA, or denied
C21_Witness ==
    /\ Answered
    /\ \E i \in Processed :
           LET rr == response.raw_results[i]
           IN  /\ S3Case(rr)
               /\ rr.work.candidates[rr.work.best].revision # rr.segment.parent_sha
               /\ rr.result.tier = 3

-----------------------------------------------------------------------------
(* Commit-link validation *)

\* A commit-link body without commit_sha, or whose trace_ids is missing, empty
\* or not a list (a missing key reads as "" or [])
InvalidCommitLink(req) ==
    /\ req.endpoint = "commit-links"
    /\ \/ req.data.commit_sha = ""
       \/ req.data.trace_ids = <<>>
       \/ req.data.trace_ids = StringIds

\* C22: a commit link with an empty or missing commit_sha, or with trace_ids
\* missing, empty or not a list, is answered 400 by an authenticated request
\* and no step of the request runs a statement, opens a connection or changes
\* a table: no project row and no commit-link row is created or modified.
C22_CommitLinkValidation ==
    [][\A w \in Workers :
           (Changed(w) /\ InvalidCommitLink(workers'[w].req)
            /\ Authenticated[workers'[w].req.auth].status = 0) =>
               /\ workers'[w].status = 400
               /\ workers'[w].pc \in {"responded", "done"}
               /\ workers'[w].step = 0
               /\ workers'[w].conn = "none"
               /\ workers'[w].tx = NoTx
               /\ projects' = projects
               /\ commit_links' = commit_links
               /\ store' = store]_vars

\* trace_ids that is not a list passes the route and is turned away by the
\* service; the request has ended and a commit link of the same commit, stored
\* before, is still the only one
C22_Witness ==
    \E w \in Workers :
        /\ workers[w].pc = "done"
        /\ workers[w].req.endpoint = "commit-links"
        /\ workers[w].req.data.trace_ids = StringIds
        /\ Validate(workers[w].req) = 0
        /\ workers[w].status = 400
        /\ \E r \in commit_links : r.commit_sha = "C" /\ r.trace_ids # StringIds
        /\ \A r \in commit_links : r.trace_ids # StringIds

-----------------------------------------------------------------------------
(* The range functions *)

\* The ranges a file entry records at any level: its own, its conversations',
\* those of conversations[].ranges[] and of its changes
RecordedRanges(file_entry) ==
    LET convs == {file_entry.conversations[i] : i \in 1..Len(file_entry.conversations)}
        entries == {file_entry} \cup convs
                   \cup UNION {{c.ranges[k] : k \in 1..Len(c.ranges)} : c \in convs}
                   \cup {file_entry.changes[k] : k \in 1..Len(file_entry.changes)}
    IN  {<<e.start_line, e.end_line>> :
            e \in {x \in {[start_line |-> y.start_line, end_line |-> y.end_line] :
                             y \in entries} :
                      x.start_line # NoLine /\ x.end_line # NoLine}}

InsideSome(R, n) == \E r \in R : r[1] <= n /\ n <= r[2]

NearSome(R, n) == \E r \in R : r[1] - 5 <= n /\ n <= r[2] + 5

\* C23 (as claimed): range_match fires iff the line lies inside at least one
\* recorded range of the file entry, in whatever order the ranges come;
\* range_overlap fires iff the line is inside none but within 5 lines of one;
\* the two never fire together.
C23_RangeSignals ==
    calc.fn = "_check_range" =>
        LET R == RecordedRanges(calc.a)
            S == SignalSet(calc.out)
        IN  /\ ("range_match" \in S) <=> InsideSome(R, calc.n)
            /\ ("range_overlap" \in S) <=> (~InsideSome(R, calc.n) /\ NearSome(R, calc.n))
            /\ ~({"range_match", "range_overlap"} \subseteq S)

-----------------------------------------------------------------------------
(* The timestamp signal *)

\* C24 (as claimed): every scored candidate whose trace_timestamp is set and
\* parseable gets timestamp_match, adding 5 to its score, whatever the blame
\* segment carries, in particular when it carries no parent_sha.
C24_TimestampAlways ==
    Answered =>
        \A i \in Processed :
            LET rr == response.raw_results[i]
            IN  \A j \in 1..Len(rr.work.candidates) :
                    rr.work.candidates[j].trace_timestamp # NoTimestamp =>
                        /\ InSeq("timestamp_match", rr.work.scores[j].signals)
                        /\ rr.work.scores[j].score =
                               5 + SumWeights(SelectSeq(rr.work.scores[j].signals,
                                                        LAMBDA s : s # "timestamp_match"))

-----------------------------------------------------------------------------
(* matched_range *)

\* Distance of line n to the nearer endpoint of range r
EndpointDistance(r, n) == Min2(Abs(n - r[1]), Abs(n - r[2]))

\* C25 (as claimed): if some recorded range contains the line,
\* _get_best_range returns a containing range of minimal span, whatever the
\* order of the ranges; if none contains it, a range of minimal endpoint
\* distance to the line.
C25_BestRange ==
    (calc.fn = "_get_best_range" /\ RecordedRanges(calc.a) # {}) =>
        LET R == RecordedRanges(calc.a)
            containing == {r \in R : r[1] <= calc.n /\ calc.n <= r[2]}
        IN  /\ calc.out \in R
            /\ IF containing # {}
               THEN /\ calc.out \in containing
                    /\ \A r \in containing : calc.out[2] - calc.out[1] <= r[2] - r[1]
               ELSE \A r \in R :
                        EndpointDistance(calc.out, calc.n) <= EndpointDistance(r, calc.n)

-----------------------------------------------------------------------------
(* contributor_type *)

\* The contributor types carried by the conversations of file entries
TypesOf(entries) ==
    {c.contributor_type :
        c \in {x \in UNION {{f.conversations[k] : k \in 1..Len(f.conversations)} :
                               f \in entries} :
                  Truthy(x.contributor_type)}}

FilesOf(t) == {t.files[m] : m \in 1..Len(t.files)}

\* C26 (as claimed): the contributor_type of an attribution is one carried by a
\* conversation of the winner's matched file entry whenever there is one; it
\* is "unknown" only when no conversation of the matched entry, of the
\* winner's other file entries or of the other candidates carries a type.
C26_ContributorType ==
    Answered =>
        \A i \in Processed :
            LET rr == response.raw_results[i]
                t == rr.work.candidates[rr.work.best]
                own == TypesOf({t.files[FindMatchingFile(t.files, request.file_path)]})
                all == UNION {TypesOf(FilesOf(rr.work.candidates[j])) :
                                 j \in 1..Len(rr.work.candidates)}
            IN  rr.result.trace_id # NoneStr =>
                    /\ own # {} => rr.result.contributor_type \in own
                    /\ rr.result.contributor_type = "unknown" => all = {}

-----------------------------------------------------------------------------
(* The representative line *)

\* What attribute_line answers for a line of a processed segment, over the
\* store as it is
ResultAt(segment, line_number) ==
    AttributeLine(request.project_id, request.file_path, line_number,
                  segment.commit_sha, segment.parent_sha, segment.content_hash,
                  segment.timestamp, request.ord).result

\* C27 (as claimed): for every processed segment and every line between its
\* start_line and end_line, attribute_line returns the trace_id, tier and
\* signals it returns for the midpoint (start_line + end_line) // 2 that
\* blame_file uses.
C27_RepresentativeLine ==
    Answered =>
        \A i \in Processed :
            LET rr == response.raw_results[i]
            IN  /\ rr.line_number = (rr.segment.start_line + rr.segment.end_line) \div 2
                /\ \A n \in rr.segment.start_line..rr.segment.end_line :
                       /\ ResultAt(rr.segment, n).trace_id = rr.result.trace_id
                       /\ ResultAt(rr.segment, n).tier = rr.result.tier
                       /\ ResultAt(rr.segment, n).signals = rr.result.signals

-----------------------------------------------------------------------------
(* Signal combinations and the upper tiers *)

Occurrences(signals, s) == Cardinality({k \in 1..Len(signals) : signals[k] = s})

-----------------------------------------------------------------------------
(* Lines covered by the merged output *)

\* C29 (as claimed): every line of every processed segment lies within
\* [start_line, end_line] of some output entry, and a fold never decreases the
\* end_line of the entry it folds into, also when segments overlap or are
\* nested.
C29_NoLineLost ==
    Answered =>
        /\ \A i \in Processed :
               LET seg == response.raw_results[i].segment
               IN  \A n \in seg.start_line..seg.end_line :
                       \E j \in 1..Len(response.attributions) :
                           /\ response.attributions[j].start_line <= n
                           /\ n <= response.attributions[j].end_line
        /\ \A k \in Processed :
               Folds(k) =>
                   MergedPrefix(k)[Len(MergedPrefix(k))].end_line
                       >= MergedPrefix(k - 1)[Len(MergedPrefix(k - 1))].end_line

-----------------------------------------------------------------------------
(* Qualifying candidates *)

\* Candidate j of a processed segment qualifies: a positive score, signals the
\* evidence gate admits and a tier
Qualifies(rr, j) ==
    /\ rr.work.scores[j].score > 0
    /\ GateAdmits(SignalSet(rr.work.scores[j].signals))
    /\ ComputeTier(rr.work.scores[j].score, rr.work.scores[j].signals) # NoTier

\* C30 (as claimed): whenever some candidate that survived the file filter
\* qualifies, attribute_line returns an attribution; the result is null only
\* when no candidate qualifies.
C30_QualifyingCandidateAttributed ==
    Answered =>
        \A i \in Processed :
            LET rr == response.raw_results[i]
            IN  (\E j \in 1..Len(rr.work.candidates) : Qualifies(rr, j)) =>
                    /\ rr.result.trace_id # NoneStr
                    /\ rr.result.tier # NoTier

====
